---- MODULE Spec2Model ----
(***************************************************************************)
(* The polling hooks of openhamclock as state machines:                    *)
(*   useDXClusterData (src/unnamed/part_000)  - the spot aggregator,       *)
(*   usePSKReporter   (src/src/hooks/usePSKReporter.js),                   *)
(*   useLayer         (src/src/plugins/layers/useWSPR.js) - the WSPR feed  *)
(*                    and the paths and markers it draws on the map.       *)
(*                                                                         *)
(* Time is counted in whole units of 15 minutes: a clock reading `now`     *)
(* stands for Date.now() = now * 900000 ms, and                            *)
(* spotRetentionMs = (spotRetentionMinutes || 30) * 60 * 1000 becomes      *)
(* (minutes || DefaultRetention) units.  A timestamp of 0 is the falsy     *)
(* value of JavaScript: a raw report that carries no timestamp.            *)
(*                                                                         *)
(* Spec follows one mounted hook through its fetches, timers,              *)
(* configuration changes and unmount.  ViewSpec follows applyFilters and   *)
(* the view effect of useDXClusterData over retained sets, filters and     *)
(* resolvers; FeedSpec is useDXClusterData on a feed that leaves identity  *)
(* fields out; CodecSpec is gridToLatLon over locators; PlotSpec is        *)
(* getGreatCirclePath, getSNRColor and getLineWeight over the endpoints    *)
(* and the SNR of one path.                                                *)
(* LiveSpec is useDXClusterData that stays mounted, with fair polling;     *)
(* StaleSpec is useDXClusterData with the retention set to 45 and to 15    *)
(* minutes.                                                                *)
(* DashSpec is useDXClusterData on a feed whose calls hold the '-' of the  *)
(* key; EquatorSpec is usePSKReporter with a receiver at latitude 0;       *)
(* SettleSpec is either hook mounted, with every fetch completing.         *)
(* reportsOf and answered are history variables of usePSKReporter: whose   *)
(* response the reports shown came from, and whether the request as        *)
(* configured now has had a response.                                      *)
(***************************************************************************)
EXTENDS Integers, Sequences, FiniteSets, TLC

\* ------------------------------------------------------------------ bounds
\* The last clock reading the model follows.
MaxNow == 3
\* The longest batch one response of /api/dxcluster/paths delivers.
MaxBatch == 2
\* The number of fetches that may be awaiting their response at once.
MaxInflight == 2
\* The longest report list (tx or rx) of one PSKReporter response.
MaxReports == 2
\* The longest spot list of one WSPR response.
MaxWsprSpots == 3
\* The largest numPoints handed to getGreatCirclePath.
MaxNumPoints == 3

\* ------------------------------------------------------- program constants
\* (filters?.spotRetentionMinutes || 30): 30 minutes = 2 units of 15 minutes.
DefaultRetention == 2
\* .slice(0, 200): the capacity, scaled from 200 to 2 so that the reports of
\* one or two batches can exceed it.
MaxCapacity == 2
\* maxSpots = 100 of usePSKReporter, scaled to 1 so that one response can
\* exceed it.
maxSpots == 1
\* Coordinates are kept in units of 1/48 degree, the finest step
\* (0.5/24 degree) of gridToLatLon.
DegreeScale == 48
\* wsprData.slice(0, 500): the number of spots drawn, scaled from 500 to 2
\* so that one response can exceed it.
MaxDisplayed == 2
\* opacity = 0.7 of useLayer, in tenths.
DefaultOpacity == 7

Range(seq) == {seq[i] : i \in 1..Len(seq)}

\* ----------------------------------------------------------- input domains
\* The identity triples (dxCall, freq, spotter) the feed delivers: two spots
\* of one station on one frequency by two spotters, and a spot of another.
Identities == {<<"K1", "7", "W1">>, <<"K1", "7", "W2">>, <<"G0", "14", "W1">>}
\* item.timestamp of a raw report: 0 (absent) or a clock reading.
RawTimestamps == 0..MaxNow
\* filters.spotRetentionMinutes, in units: 0 is absent (or 0, equally falsy).
RetentionChoices == {0, 1, 2}
\* Two settings far apart: 15 and 45 minutes.
StaleRetentionChoices == {1, 3}

RawReport(id, ts) ==
  [dxCall |-> id[1], freq |-> id[2], spotter |-> id[3], timestamp |-> ts]

RawReports == {RawReport(id, ts) : id \in Identities, ts \in RawTimestamps}

\* The responses of the endpoint: every sequence of at most MaxBatch reports.
Batches == UNION {[1..n -> RawReports] : n \in 0..MaxBatch}

\* --- usePSKReporter
\* A JavaScript value that is a number, NaN or null/undefined.
Num(n) == [tag |-> "num", val |-> n]
NaN == [tag |-> "NaN", val |-> 0]
Null == [tag |-> "null", val |-> 0]
\* The truthiness of such a value: 0, NaN and null are falsy.
Truthy(x) == x.tag = "num" /\ x.val # 0

\* The callsign argument: none, the placeholder, and two stations.
Callsigns == {"", "N0CALL", "K1ABC", "G0XYZ"}
ValidCallsigns == {c \in Callsigns : c # "" /\ c # "N0CALL"}
\* options.minutes: the default of 15 and another window.
MinutesChoices == {15, 30}
\* options.refreshInterval, in units of the default 300000 ms: 0 is none.
RefreshChoices == {0, 1}

\* A locator is the sequence of its characters; <<>> is an absent one.
\* The reports of data.tx.reports: coordinates given (40.5, -105), a locator
\* only, a locator too short to decode.
TxRawReports ==
  {[lat |-> Num(1944), lon |-> Num(-5040), receiverGrid |-> <<>>],
   [lat |-> Null, lon |-> Null, receiverGrid |-> <<"F", "N", "3", "1">>],
   [lat |-> Null, lon |-> Null, receiverGrid |-> <<"F", "N">>]}
\* The reports of data.rx.reports: coordinates given, a longitude of 0 with
\* a locator, nothing at all.
RxRawReports ==
  {[lat |-> Num(1944), lon |-> Num(-5040), senderGrid |-> <<>>],
   [lat |-> Num(2472), lon |-> Num(0), senderGrid |-> <<"I", "O", "9", "1">>],
   [lat |-> Null, lon |-> Null, senderGrid |-> <<>>]}
\* data.error || data.tx?.error || data.rx?.error: "" when there is none.
ResponseErrors == {"", "upstream error"}
\* err.message of a failed fetch.
FailureMessages == {"HTTP 500", "Failed to fetch"}

ListsOf(S) == UNION {[1..n -> S] : n \in 0..MaxReports}

PskResponses ==
  [tx : ListsOf(TxRawReports), rx : ListsOf(RxRawReports), error : ResponseErrors]

\* --- useLayer (WSPR)
WsprSpots ==
  {[sender |-> "K1ABC", senderGrid |-> "DN70", receiver |-> "DL1ABC",
    receiverGrid |-> "JO60", snr |-> -12, timestamp |-> 1],
   [sender |-> "K1ABC", senderGrid |-> "DN70", receiver |-> "G0XYZ",
    receiverGrid |-> "IO91", snr |-> 3, timestamp |-> 2],
   [sender |-> "G0XYZ", senderGrid |-> "IO91", receiver |-> "DL1ABC",
    receiverGrid |-> "JO60", snr |-> -25, timestamp |-> 3]}
\* data.spots: the spots in any order, none of them twice.
WsprResponses ==
  {r \in UNION {[1..n -> WsprSpots] : n \in 0..MaxWsprSpots} :
     \A i, j \in 1..Len(r) : r[i] = r[j] => i = j}
\* The opacity of the layer, in tenths.
OpacityChoices == {5, DefaultOpacity}

VARIABLES
  hook,                  \* the hook this behaviour follows
  mounted,               \* whether the component that uses it is mounted
  allData,               \* useState([]): the retained reports, in list order
  loading,               \* useState(true)
  spotRetentionMinutes,  \* filters.spotRetentionMinutes, the hook's argument
  inflight,              \* fetchData calls awaiting fetch(): window -> count
  now,                   \* Date.now()
  intervals,             \* setInterval timers not cleared: their windows
  lastFetchRef,          \* useRef(0): lastFetchRef.current
  callsign,              \* usePSKReporter(callsign, ...)
  enabled,               \* options.enabled
  txReports,             \* useState([])
  rxReports,             \* useState([])
  pskLoading,            \* useState(true)
  error,                 \* useState(null): "null" or a message
  pskInflight,           \* fetchData calls awaiting fetch(): callsign -> count
  minutes,               \* options.minutes
  refreshInterval,       \* options.refreshInterval
  pskIntervals,          \* setInterval timers not cleared: their closures
  reportsOf,             \* history: the callsign whose response the reports are
  answered,              \* history: the request as configured now was answered
  wsprEnabled,           \* useLayer({ enabled })
  wsprData,              \* useState([])
  wsprInflight,          \* fetchWSPR calls awaiting fetch()
  wsprIntervals,         \* the number of setInterval timers not cleared
  opacity,               \* useLayer({ opacity }), in tenths
  pathLayers,            \* useState([])
  markerLayers,          \* useState([])
  legendControl,         \* useState(null)
  statsControl,          \* useState(null)
  renderCleanup,         \* what the last run of the render effect returned
  mapLayers,             \* the layers on the Leaflet map
  mapControls,           \* the controls on the Leaflet map
  everAdded,             \* whether a layer has ever been added to the map
  filters,               \* the filters argument of useDXClusterData
  getCallsignInfo,       \* the callsign resolver: callsign -> info
  spots,                 \* useState([]): the list view
  paths,                 \* useState([]): the map view
  locator,               \* the argument of a call of gridToLatLon
  decoded,               \* what the call returned, and of which module
  pathArgs,              \* lat1, lon1, lat2, lon2, numPoints and snr of one path
  polyline               \* its pathCoords, color and weight, once computed

dxVars ==
  <<allData, loading, spotRetentionMinutes, inflight, now, intervals, lastFetchRef>>
pskVars ==
  <<callsign, enabled, txReports, rxReports, pskLoading, error, pskInflight,
    minutes, refreshInterval, pskIntervals, reportsOf, answered>>
fetchVars == <<wsprEnabled, wsprData, wsprInflight, wsprIntervals>>
renderVars ==
  <<opacity, pathLayers, markerLayers, legendControl, statsControl, renderCleanup,
    mapLayers, mapControls, everAdded>>
wsprVars == <<fetchVars, renderVars>>
viewVars == <<filters, getCallsignInfo, spots, paths>>
codecVars == <<locator, decoded>>
plotVars == <<pathArgs, polyline>>
vars == <<hook, mounted, dxVars, pskVars, wsprVars, viewVars, codecVars, plotVars>>

\* ------------------------------------------------------- useDXClusterData
\* const spotRetentionMs = (filters?.spotRetentionMinutes || 30) * 60 * 1000
RetentionMs(retention) == IF retention # 0 THEN retention ELSE DefaultRetention

spotRetentionMs == RetentionMs(spotRetentionMinutes)

\* Every value spotRetentionMs takes.
Windows == {RetentionMs(m) : m \in RetentionChoices \cup StaleRetentionChoices}

\* `${item.dxCall}-${item.freq}-${item.spotter}`
KeyOf(item) == item.dxCall \o "-" \o item.freq \o "-" \o item.spotter

\* a || b on timestamps: 0 is falsy.
OrElse(a, b) == IF a # 0 THEN a ELSE b

\* Mutant of MapSet: every set appends, as pushing onto an array would.
MapSetAppends(m, k, v) == Append(m, [key |-> k, value |-> v])

\* Mutant of MapSet: an existing key keeps the value it has.
MapSetKeepsFirst(m, k, v) ==
  IF \E i \in 1..Len(m) : m[i].key = k THEN m
  ELSE Append(m, [key |-> k, value |-> v])

\* A Map is kept as the sequence of its [key, value] entries in insertion
\* order.  Map.prototype.set: an existing key keeps its place and takes the
\* new value, a new key is appended.
MapSet(m, k, v) ==
  IF \E i \in 1..Len(m) : m[i].key = k
  THEN [i \in 1..Len(m) |-> IF m[i].key = k THEN [key |-> k, value |-> v] ELSE m[i]]
  ELSE Append(m, [key |-> k, value |-> v])

\* new Map(prev.map(item => [key, item]))
RECURSIVE ExistingMap(_)
ExistingMap(prev) ==
  IF prev = <<>> THEN <<>>
  ELSE MapSet(ExistingMap(SubSeq(prev, 1, Len(prev) - 1)),
              KeyOf(prev[Len(prev)]), prev[Len(prev)])

\* { ...item, timestamp: item.timestamp || now }
Stamped(item, t) == [item EXCEPT !.timestamp = OrElse(item.timestamp, t)]

\* newData.forEach(item => existingMap.set(key, {...item, timestamp: ...}))
RECURSIVE MergeBatch(_, _, _)
MergeBatch(m, batch, t) ==
  IF batch = <<>> THEN m
  ELSE MergeBatch(MapSet(m, KeyOf(Head(batch)), Stamped(Head(batch), t)),
                  Tail(batch), t)

\* Array.from(existingMap.values())
MapValues(m) == [i \in 1..Len(m) |-> m[i].value]

\* The age test that never fails: every item counts as fresh for ever.
IsFreshAlways(item, t, window) == TRUE

\* (now - (item.timestamp || now)) < spotRetentionMs
IsFresh(item, t, window) == t - OrElse(item.timestamp, t) < window

\* The filter of the updater left out: nothing is evicted on ingest.
ValidItemsLeftOut(items, t, window) == items

\* .filter(item => (now - (item.timestamp || now)) < spotRetentionMs)
ValidItems(items, t, window) ==
  SelectSeq(items, LAMBDA item : IsFresh(item, t, window))

\* Mutant of InsertSorted: an unstable sort, which puts an item before the
\* entries it ties with.
RECURSIVE InsertBeforeTies(_, _)
InsertBeforeTies(sorted, item) ==
  IF sorted = <<>> THEN <<item>>
  ELSE IF OrElse(item.timestamp, 0) - OrElse(Head(sorted).timestamp, 0) >= 0
       THEN <<item>> \o sorted
       ELSE <<Head(sorted)>> \o InsertBeforeTies(Tail(sorted), item)

\* Mutant of InsertSorted: the comparator the other way round,
\* (a, b) => (a.timestamp || 0) - (b.timestamp || 0).
RECURSIVE InsertOldestFirst(_, _)
InsertOldestFirst(sorted, item) ==
  IF sorted = <<>> THEN <<item>>
  ELSE IF OrElse(Head(sorted).timestamp, 0) - OrElse(item.timestamp, 0) > 0
       THEN <<item>> \o sorted
       ELSE <<Head(sorted)>> \o InsertOldestFirst(Tail(sorted), item)

\* One item put into a list already sorted by the comparator
\* (a, b) => (b.timestamp || 0) - (a.timestamp || 0): it goes behind every
\* entry that does not compare after it (Array.prototype.sort is stable).
RECURSIVE InsertSorted(_, _)
InsertSorted(sorted, item) ==
  IF sorted = <<>> THEN <<item>>
  ELSE IF OrElse(item.timestamp, 0) - OrElse(Head(sorted).timestamp, 0) > 0
       THEN <<item>> \o sorted
       ELSE <<Head(sorted)>> \o InsertSorted(Tail(sorted), item)

\* Mutant of SortNewestFirst: the sort is left out.
SortLeftOut(items) == items

\* .sort((a, b) => (b.timestamp || 0) - (a.timestamp || 0))
RECURSIVE SortNewestFirst(_)
SortNewestFirst(items) ==
  IF items = <<>> THEN <<>>
  ELSE InsertSorted(SortNewestFirst(SubSeq(items, 1, Len(items) - 1)),
                    items[Len(items)])

\* Mutant of SliceCapacity: the slice is left out.
SliceLeftOut(items) == items

\* Mutant of SliceCapacity: the slice ends one entry early.
SliceOneShort(items) ==
  SubSeq(items, 1, IF Len(items) < MaxCapacity - 1 THEN Len(items) ELSE MaxCapacity - 1)

\* .slice(0, 200)
SliceCapacity(items) ==
  SubSeq(items, 1, IF Len(items) < MaxCapacity THEN Len(items) ELSE MaxCapacity)

\* The entries of existingMap after the batch is merged.
Merged(prev, batch, t) == MapValues(MergeBatch(ExistingMap(prev), batch, t))

\* The updater handed to setAllData by fetchData.
Ingest(prev, batch, t, window) ==
  SliceCapacity(SortNewestFirst(ValidItems(Merged(prev, batch, t), t, window)))

\* Mutant of CleanUp: the retention effect is left out, so that stale
\* entries wait for the next ingest.
CleanUpLeftOut(prev, t, window) == prev

\* The updater of the retention effect: prev.filter(item => fresh).
CleanUp(prev, t, window) == ValidItems(prev, t, window)

RECURSIVE InflightOf(_)
InflightOf(windows) ==
  IF windows = {} THEN 0
  ELSE LET w == CHOOSE v \in windows : TRUE
       IN inflight[w] + InflightOf(windows \ {w})

InflightCount == InflightOf(Windows)

\* Mutant of RestartInterval: the cleanup of the effect does not clear the
\* timer of the run before.
RestartIntervalLeaks(timers, closure) == Append(timers, closure)

\* An effect runs again: its cleanup clears the timer of the run before
\* (return () => clearInterval(interval)) and the new run sets its own
\* (setInterval(fetchData, ...)), which calls the fetchData of that run.
RestartInterval(timers, closure) == <<closure>>

\* fetchData() up to its await fetch(...): the closure holds the window of
\* the render that created it.
StartFetch(window) == [inflight EXCEPT ![window] = @ + 1]

DXInit ==
  /\ allData = <<>>
  /\ loading = TRUE
  /\ now = 1
  /\ lastFetchRef = 0
  \* the mount runs the fetch effect: fetchData() is called at once
  /\ inflight = [w \in Windows |-> IF w = spotRetentionMs THEN 1 ELSE 0]
  /\ intervals = RestartInterval(<<>>, spotRetentionMs)

\* The state of a hook that is not mounted.
DXIdle ==
  /\ allData = <<>>
  /\ loading = TRUE
  /\ now = 1
  /\ spotRetentionMinutes = 0
  /\ inflight = [w \in Windows |-> 0]
  /\ intervals = <<>>
  /\ lastFetchRef = 0

\* Time passes.
Tick ==
  /\ hook = "useDXClusterData"
  /\ now < MaxNow
  /\ now' = now + 1
  /\ UNCHANGED <<allData, loading, spotRetentionMinutes, inflight, intervals, lastFetchRef>>
  /\ UNCHANGED <<hook, mounted, pskVars, wsprVars, viewVars, codecVars, plotVars>>

\* setInterval(fetchData, pollInterval) fires: a timer that was not cleared
\* calls the fetchData of the effect run that set it.
PollTimer ==
  /\ hook = "useDXClusterData"
  /\ InflightCount < MaxInflight
  /\ \E i \in 1..Len(intervals) : inflight' = StartFetch(intervals[i])
  /\ UNCHANGED <<allData, loading, spotRetentionMinutes, now, intervals, lastFetchRef>>
  /\ UNCHANGED <<hook, mounted, pskVars, wsprVars, viewVars, codecVars, plotVars>>

\* A fetch resolves with response.ok and the batch newData.  Nothing in
\* fetchData looks at whether the component is still mounted: the setters
\* are called and the ref is written either way; React drops the state
\* updates of a component that is not mounted, the ref write is done.
FetchOk(window, newData) ==
  /\ hook = "useDXClusterData"
  /\ inflight[window] > 0
  /\ inflight' = [inflight EXCEPT ![window] = @ - 1]
  /\ IF mounted
     THEN /\ allData' = Ingest(allData, newData, now, window)
          /\ loading' = FALSE
     ELSE UNCHANGED <<allData, loading>>
  /\ lastFetchRef' = now
  /\ UNCHANGED <<spotRetentionMinutes, now, intervals>>
  /\ UNCHANGED <<hook, mounted, pskVars, wsprVars, viewVars, codecVars, plotVars>>

\* Mutant of FetchFail: setLoading(false) is done on success only, with no
\* finally block.
FetchFailStaysLoading(window) ==
  /\ hook = "useDXClusterData"
  /\ inflight[window] > 0
  /\ inflight' = [inflight EXCEPT ![window] = @ - 1]
  /\ UNCHANGED <<allData, loading, spotRetentionMinutes, now, intervals, lastFetchRef>>
  /\ UNCHANGED <<hook, mounted, pskVars, wsprVars, viewVars, codecVars, plotVars>>

\* A fetch resolves with a non-OK status, or fetch()/json() throws.
FetchFail(window) ==
  /\ hook = "useDXClusterData"
  /\ inflight[window] > 0
  /\ inflight' = [inflight EXCEPT ![window] = @ - 1]
  /\ loading' = IF mounted THEN FALSE ELSE loading
  /\ UNCHANGED <<allData, spotRetentionMinutes, now, intervals, lastFetchRef>>
  /\ UNCHANGED <<hook, mounted, pskVars, wsprVars, viewVars, codecVars, plotVars>>

\* The hook is rendered with another filters.spotRetentionMinutes.  When
\* spotRetentionMs changes, the fetch effect is torn down and run again
\* (clearInterval, fetchData(), setInterval) and the retention effect filters
\* the retained set.
SetRetention(retention) ==
  /\ hook = "useDXClusterData"
  /\ mounted
  /\ retention # spotRetentionMinutes
  /\ spotRetentionMinutes' = retention
  /\ IF RetentionMs(retention) # spotRetentionMs
     THEN /\ InflightCount < MaxInflight
          /\ inflight' = StartFetch(RetentionMs(retention))
          /\ intervals' = RestartInterval(intervals, RetentionMs(retention))
          /\ allData' = CleanUp(allData, now, RetentionMs(retention))
     ELSE UNCHANGED <<inflight, intervals, allData>>
  /\ UNCHANGED <<loading, now, lastFetchRef>>
  /\ UNCHANGED <<hook, mounted, pskVars, wsprVars, viewVars, codecVars, plotVars>>

\* --------------------------------------------------------- usePSKReporter
UpperCase ==
  <<"A", "B", "C", "D", "E", "F", "G", "H", "I", "J", "K", "L", "M",
    "N", "O", "P", "Q", "R", "S", "T", "U", "V", "W", "X", "Y", "Z">>
LowerCase ==
  <<"a", "b", "c", "d", "e", "f", "g", "h", "i", "j", "k", "l", "m",
    "n", "o", "p", "q", "r", "s", "t", "u", "v", "w", "x", "y", "z">>
DigitChars == <<"0", "1", "2", "3", "4", "5", "6", "7", "8", "9">>

IndexIn(chars, c) == CHOOSE i \in 1..Len(chars) : chars[i] = c

\* String.prototype.toUpperCase, character by character.
ToUpperCase(grid) ==
  [i \in 1..Len(grid) |->
     IF grid[i] \in Range(LowerCase) THEN UpperCase[IndexIn(LowerCase, grid[i])]
     ELSE grid[i]]

\* g.charCodeAt(i) - 65, for letters and digits ("A" is 65, "a" 97, "0" 48).
CodeMinus65(c) ==
  IF c \in Range(UpperCase) THEN IndexIn(UpperCase, c) - 1
  ELSE IF c \in Range(LowerCase) THEN IndexIn(LowerCase, c) + 31
  ELSE IndexIn(DigitChars, c) - 18

\* parseInt of one character: a digit's value, or NaN.
ParseInt(c) == IF c \in Range(DigitChars) THEN Num(IndexIn(DigitChars, c) - 1) ELSE NaN

\* whole + part, where part may be NaN; in units of 1/48 degree.
PlusParsed(whole, part, perUnit) ==
  IF part.tag = "NaN" THEN NaN ELSE Num(whole + part.val * perUnit)

\* gridToLatLon without the half-cell offsets: the corner of the cell.
gridToLatLonCorner(grid) ==
  IF grid = <<>> \/ Len(grid) < 4 THEN [null |-> TRUE, lat |-> Null, lon |-> Null]
  ELSE
    LET g == ToUpperCase(grid)
        lon == CodeMinus65(g[1]) * 20 - 180
        lat == CodeMinus65(g[2]) * 10 - 90
        lonSec == IF Len(grid) >= 6 THEN CodeMinus65(g[5]) * 4 ELSE 0
        latSec == IF Len(grid) >= 6 THEN CodeMinus65(g[6]) * 2 ELSE 0
    IN [null |-> FALSE,
        lat |-> PlusParsed(lat * DegreeScale + latSec, ParseInt(g[4]), DegreeScale),
        lon |-> PlusParsed(lon * DegreeScale + lonSec, ParseInt(g[3]), 2 * DegreeScale)]

\* gridToLatLon(grid): null, or { lat, lon } in units of 1/48 degree.
gridToLatLon(grid) ==
  IF grid = <<>> \/ Len(grid) < 4 THEN [null |-> TRUE, lat |-> Null, lon |-> Null]
  ELSE
    LET g == ToUpperCase(grid)
        lon == CodeMinus65(g[1]) * 20 - 180
        lat == CodeMinus65(g[2]) * 10 - 90
        lonMin == ParseInt(g[3])
        latMin == ParseInt(g[4])
        lonSec == IF Len(grid) >= 6 THEN CodeMinus65(g[5]) * 4 ELSE 0
        latSec == IF Len(grid) >= 6 THEN CodeMinus65(g[6]) * 2 ELSE 0
        lonHalf == IF Len(grid) >= 6 THEN 2 ELSE DegreeScale
        latHalf == IF Len(grid) >= 6 THEN 1 ELSE DegreeScale \div 2
    IN [null |-> FALSE,
        lat |-> PlusParsed(lat * DegreeScale + latSec + latHalf, latMin, DegreeScale),
        lon |-> PlusParsed(lon * DegreeScale + lonSec + lonHalf, lonMin, 2 * DegreeScale)]

\* r.lat || (grid ? gridToLatLon(grid)?.lat : null), and the same for lon
Located(r, grid) ==
  [r EXCEPT
     !.lat = IF Truthy(r.lat) THEN r.lat
             ELSE IF grid # <<>> THEN gridToLatLon(grid).lat ELSE Null,
     !.lon = IF Truthy(r.lon) THEN r.lon
             ELSE IF grid # <<>> THEN gridToLatLon(grid).lon ELSE Null]

\* .filter(r => r.lat && r.lon).slice(0, maxSpots)
LocatedFirst(reports) ==
  LET located == SelectSeq(reports, LAMBDA r : Truthy(r.lat) /\ Truthy(r.lon))
  IN SubSeq(located, 1, IF Len(located) < maxSpots THEN Len(located) ELSE maxSpots)

processedTx(txData) ==
  LocatedFirst([i \in 1..Len(txData) |-> Located(txData[i], txData[i].receiverGrid)])

processedRx(rxData) ==
  LocatedFirst([i \in 1..Len(rxData) |-> Located(rxData[i], rxData[i].senderGrid)])

PskInflightCount == pskInflight["K1ABC"] + pskInflight["G0XYZ"]

\* if (!callsign || callsign === 'N0CALL' || !enabled)
NothingToFetch(c, en) == c = "" \/ c = "N0CALL" \/ ~en

\* fetchData() of the closure over (c, en), up to its await fetch(...).
CallFetchData(c, en) ==
  IF NothingToFetch(c, en)
  THEN /\ txReports' = <<>>
       /\ rxReports' = <<>>
       /\ pskLoading' = FALSE
       /\ reportsOf' = ""
       /\ UNCHANGED <<error, pskInflight>>
  ELSE /\ PskInflightCount < MaxInflight
       /\ error' = "null"
       /\ pskInflight' = [pskInflight EXCEPT ![c] = @ + 1]
       /\ UNCHANGED <<txReports, rxReports, pskLoading, reportsOf>>

\* The closure of one run of the refresh effect: the fetchData it calls.
Closure(c, en) == [callsign |-> c, enabled |-> en]

\* The refresh effect runs again: the timer of the run before is cleared,
\* and if (enabled && refreshInterval > 0) a new one is set.
PskRestartInterval(timers, c, en, refresh) ==
  IF en /\ refresh > 0 THEN RestartInterval(timers, Closure(c, en))
  ELSE SubSeq(RestartInterval(timers, Closure(c, en)), 1, 0)

PSKInit ==
  /\ txReports = <<>>
  /\ rxReports = <<>>
  /\ error = "null"
  \* the mount runs the refresh effect: fetchData() is called at once
  /\ pskLoading = ~NothingToFetch(callsign, enabled)
  /\ pskInflight = [c \in ValidCallsigns |->
                      IF c = callsign /\ enabled THEN 1 ELSE 0]
  /\ pskIntervals = PskRestartInterval(<<>>, callsign, enabled, refreshInterval)
  /\ reportsOf = ""
  /\ answered = FALSE

PSKIdle ==
  /\ callsign = ""
  /\ enabled = FALSE
  /\ txReports = <<>>
  /\ rxReports = <<>>
  /\ error = "null"
  /\ pskLoading = TRUE
  /\ pskInflight = [c \in ValidCallsigns |-> 0]
  /\ minutes = 15
  /\ refreshInterval = 1
  /\ pskIntervals = <<>>
  /\ reportsOf = ""
  /\ answered = FALSE

\* setInterval(fetchData, refreshInterval) fires: a timer that was not
\* cleared calls the fetchData of the effect run that set it.
PskPollTimer ==
  /\ hook = "usePSKReporter"
  /\ \E i \in 1..Len(pskIntervals) :
       CallFetchData(pskIntervals[i].callsign, pskIntervals[i].enabled)
  /\ UNCHANGED <<callsign, enabled, minutes, refreshInterval, pskIntervals, answered>>
  /\ UNCHANGED <<hook, mounted, dxVars, wsprVars, viewVars, codecVars, plotVars>>

\* The caller calls the refresh function the hook returns.
PskRefresh ==
  /\ hook = "usePSKReporter"
  /\ mounted
  /\ CallFetchData(callsign, enabled)
  /\ UNCHANGED <<callsign, enabled, minutes, refreshInterval, pskIntervals, answered>>
  /\ UNCHANGED <<hook, mounted, dxVars, wsprVars, viewVars, codecVars, plotVars>>

\* The hook is rendered with another callsign: fetchData is made anew and
\* the refresh effect runs again (clearInterval, fetchData(), setInterval).
SetCallsign(c) ==
  /\ hook = "usePSKReporter"
  /\ mounted
  /\ c # callsign
  /\ callsign' = c
  /\ CallFetchData(c, enabled)
  /\ pskIntervals' = PskRestartInterval(pskIntervals, c, enabled, refreshInterval)
  /\ answered' = FALSE
  /\ UNCHANGED <<enabled, minutes, refreshInterval>>
  /\ UNCHANGED <<hook, mounted, dxVars, wsprVars, viewVars, codecVars, plotVars>>

\* The hook is rendered with the other value of options.enabled.
SetEnabled ==
  /\ hook = "usePSKReporter"
  /\ mounted
  /\ enabled' = ~enabled
  /\ CallFetchData(callsign, ~enabled)
  /\ pskIntervals' = PskRestartInterval(pskIntervals, callsign, ~enabled, refreshInterval)
  /\ answered' = FALSE
  /\ UNCHANGED <<callsign, minutes, refreshInterval>>
  /\ UNCHANGED <<hook, mounted, dxVars, wsprVars, viewVars, codecVars, plotVars>>

\* The hook is rendered with another options.minutes: fetchData is made
\* anew (it is a dependency of useCallback) and the refresh effect runs again.
SetMinutes(m) ==
  /\ hook = "usePSKReporter"
  /\ mounted
  /\ m # minutes
  /\ minutes' = m
  /\ CallFetchData(callsign, enabled)
  /\ pskIntervals' = PskRestartInterval(pskIntervals, callsign, enabled, refreshInterval)
  /\ answered' = FALSE
  /\ UNCHANGED <<callsign, enabled, refreshInterval>>
  /\ UNCHANGED <<hook, mounted, dxVars, wsprVars, viewVars, codecVars, plotVars>>

\* The hook is rendered with another options.refreshInterval: the refresh
\* effect runs again.
SetRefreshInterval(refresh) ==
  /\ hook = "usePSKReporter"
  /\ mounted
  /\ refresh # refreshInterval
  /\ refreshInterval' = refresh
  /\ CallFetchData(callsign, enabled)
  /\ pskIntervals' = PskRestartInterval(pskIntervals, callsign, enabled, refresh)
  /\ UNCHANGED <<callsign, enabled, minutes, answered>>
  /\ UNCHANGED <<hook, mounted, dxVars, wsprVars, viewVars, codecVars, plotVars>>

\* The fetch for callsign c resolves with response.ok and the body data.
PskFetchOk(c, data) ==
  /\ hook = "usePSKReporter"
  /\ pskInflight[c] > 0
  /\ pskInflight' = [pskInflight EXCEPT ![c] = @ - 1]
  /\ IF mounted
     THEN /\ txReports' = processedTx(data.tx)
          /\ rxReports' = processedRx(data.rx)
          /\ error' = IF data.error # "" THEN data.error ELSE error
          /\ pskLoading' = FALSE
          /\ reportsOf' = c
          /\ answered' = (answered \/ c = callsign)
     ELSE UNCHANGED <<txReports, rxReports, error, pskLoading, reportsOf, answered>>
  /\ UNCHANGED <<callsign, enabled, minutes, refreshInterval, pskIntervals>>
  /\ UNCHANGED <<hook, mounted, dxVars, wsprVars, viewVars, codecVars, plotVars>>

\* Mutant of PskFetchFail: the failure clears the reports, as the branch
\* for a missing callsign does.
PskFetchFailClears(c, message) ==
  /\ hook = "usePSKReporter"
  /\ pskInflight[c] > 0
  /\ pskInflight' = [pskInflight EXCEPT ![c] = @ - 1]
  /\ error' = message
  /\ pskLoading' = FALSE
  /\ txReports' = <<>>
  /\ rxReports' = <<>>
  /\ UNCHANGED <<callsign, enabled, minutes, refreshInterval, pskIntervals>>
  /\ UNCHANGED <<reportsOf, answered>>
  /\ UNCHANGED <<hook, mounted, dxVars, wsprVars, viewVars, codecVars, plotVars>>

\* The fetch for callsign c resolves with a non-OK status (throw new
\* Error(`HTTP ${response.status}`)) or fetch()/json() throws.
PskFetchFail(c, message) ==
  /\ hook = "usePSKReporter"
  /\ pskInflight[c] > 0
  /\ pskInflight' = [pskInflight EXCEPT ![c] = @ - 1]
  /\ IF mounted
     THEN error' = message /\ pskLoading' = FALSE
     ELSE UNCHANGED <<error, pskLoading>>
  /\ UNCHANGED <<callsign, enabled, txReports, rxReports>>
  /\ UNCHANGED <<minutes, refreshInterval, pskIntervals, reportsOf, answered>>
  /\ UNCHANGED <<hook, mounted, dxVars, wsprVars, viewVars, codecVars, plotVars>>

\* ------------------------------------------------------- useLayer (WSPR)
\* null, where a control is expected.
NullControl == [id |-> 0, kind |-> "null"]
\* The render effect has returned no cleanup function.
NoCleanup ==
  [layers |-> {}, legendControl |-> NullControl, statsControl |-> NullControl]

\* The component as one render sees it, and the map.
Rendered ==
  [enabled |-> wsprEnabled, opacity |-> opacity, wsprData |-> wsprData,
   pathLayers |-> pathLayers, markerLayers |-> markerLayers,
   legendControl |-> legendControl, statsControl |-> statsControl,
   cleanup |-> renderCleanup, mapLayers |-> mapLayers,
   mapControls |-> mapControls, everAdded |-> everAdded]

\* The objects a render and the map refer to; a new object is none of them.
IdsInUse(s) ==
  {l.id : l \in s.mapLayers \cup s.mapControls \cup Range(s.pathLayers)
                  \cup Range(s.markerLayers) \cup s.cleanup.layers}
  \cup {s.legendControl.id, s.statsControl.id,
        s.cleanup.legendControl.id, s.cleanup.statsControl.id}

\* The identities of n new objects: the least ones not in use.
RECURSIVE NewIds(_, _)
NewIds(used, n) ==
  IF n = 0 THEN <<>>
  ELSE LET id == CHOOSE i \in 1..(Cardinality(used) + 1) :
                   i \notin used /\ \A j \in 1..(i - 1) : j \in used
       IN <<id>> \o NewIds(used \cup {id}, n - 1)

\* layers.forEach(layer => map.removeLayer(layer)) that removes nothing.
RemoveLayersLeftOut(onMap, layers) == onMap

\* layers.forEach(layer => { try { map.removeLayer(layer) } catch (e) {} })
RemoveLayers(onMap, layers) == onMap \ layers

\* if (control && map) map.removeControl(control)
RemoveControl(onMap, control) ==
  IF control # NullControl THEN onMap \ {control} ELSE onMap

\* const limitedData = wsprData.slice(0, 500)
limitedData(data) ==
  SubSeq(data, 1, IF Len(data) < MaxDisplayed THEN Len(data) ELSE MaxDisplayed)

\* limitedData.forEach: the path of each spot, and a marker for each sender
\* and each receiver not marked before (txStations, rxStations), in the
\* order they are made.
RECURSIVE Made(_, _, _)
Made(data, txStations, rxStations) ==
  IF data = <<>> THEN <<>>
  ELSE LET spot == Head(data)
           txKey == <<spot.sender, spot.senderGrid>>
           rxKey == <<spot.receiver, spot.receiverGrid>>
           path == <<[kind |-> "path", spot |-> spot]>>
           txMarker == IF txKey \in txStations THEN <<>>
                       ELSE <<[kind |-> "txMarker", spot |-> spot]>>
           rxMarker == IF rxKey \in rxStations THEN <<>>
                       ELSE <<[kind |-> "rxMarker", spot |-> spot]>>
       IN path \o txMarker \o rxMarker
          \o Made(Tail(data), txStations \cup {txKey}, rxStations \cup {rxKey})

\* One run of the render effect, for a render s in which one of its
\* dependencies has changed: the cleanup the run before returned, then the
\* body.  It reads the state of the render s; what it sets is in the result.
RenderEffect(s) ==
  LET c == s.cleanup
      \* return () => { ... } of the run before
      cleanedLayers == RemoveLayers(s.mapLayers, c.layers)
      cleanedControls ==
        RemoveControl(RemoveControl(s.mapControls, c.legendControl), c.statsControl)
      legendAfterCleanup ==
        IF c.legendControl # NullControl THEN NullControl ELSE s.legendControl
      statsAfterCleanup ==
        IF c.statsControl # NullControl THEN NullControl ELSE s.statsControl
      \* pathLayers.forEach(remove), markerLayers.forEach(remove), set both []
      cleared ==
        [s EXCEPT !.mapLayers = RemoveLayers(RemoveLayers(cleanedLayers, Range(s.pathLayers)),
                                             Range(s.markerLayers)),
                  !.mapControls = cleanedControls,
                  !.pathLayers = <<>>,
                  !.markerLayers = <<>>,
                  !.legendControl = legendAfterCleanup,
                  !.statsControl = statsAfterCleanup,
                  !.cleanup = NoCleanup]
      made == Made(limitedData(s.wsprData), {}, {})
      ids == NewIds(IdsInUse(s), Len(made) + 2)
      layers == [i \in 1..Len(made) |->
                   [id |-> ids[i], kind |-> made[i].kind, spot |-> made[i].spot]]
      newPaths == SelectSeq(layers, LAMBDA l : l.kind = "path")
      newMarkers == SelectSeq(layers, LAMBDA l : l.kind # "path")
      legend == [id |-> ids[Len(made) + 1], kind |-> "legend"]
      stats == [id |-> ids[Len(made) + 2], kind |-> "stats"]
      addLegend == s.legendControl = NullControl
      addStats == s.statsControl = NullControl
  IN IF ~s.enabled \/ Len(s.wsprData) = 0 THEN cleared
     ELSE [cleared EXCEPT
             !.mapLayers = @ \cup Range(layers),
             !.pathLayers = newPaths,
             !.markerLayers = newMarkers,
             !.mapControls = @ \cup (IF addLegend THEN {legend} ELSE {})
                               \cup (IF addStats THEN {stats} ELSE {}),
             !.legendControl = IF addLegend THEN legend ELSE @,
             !.statsControl = IF addStats THEN stats ELSE @,
             !.cleanup = [layers |-> Range(layers),
                          legendControl |-> s.legendControl,
                          statsControl |-> s.statsControl],
             !.everAdded = TRUE]

\* The dependencies of the render effect.
RenderDeps(s) == <<s.enabled, s.wsprData, s.opacity, s.legendControl, s.statsControl>>

\* The render effect runs, and runs again for as long as what it has set
\* (legendControl, statsControl) is a change of its dependencies.
RECURSIVE Settle(_)
Settle(s) ==
  LET t == RenderEffect(s)
  IN IF RenderDeps(t) = RenderDeps(s) THEN t ELSE Settle(t)

\* The state the component and the map are left in.
Commit(t) ==
  /\ pathLayers' = t.pathLayers
  /\ markerLayers' = t.markerLayers
  /\ legendControl' = t.legendControl
  /\ statsControl' = t.statsControl
  /\ renderCleanup' = t.cleanup
  /\ mapLayers' = t.mapLayers
  /\ mapControls' = t.mapControls
  /\ everAdded' = t.everAdded

RenderIdle ==
  /\ pathLayers = <<>>
  /\ markerLayers = <<>>
  /\ legendControl = NullControl
  /\ statsControl = NullControl
  /\ renderCleanup = NoCleanup
  /\ mapLayers = {}
  /\ mapControls = {}
  /\ everAdded = FALSE

WSPRInit ==
  /\ wsprData = <<>>
  \* if (!enabled) return; otherwise fetchWSPR() is called at once
  /\ wsprInflight = IF wsprEnabled THEN 1 ELSE 0
  /\ wsprIntervals = IF wsprEnabled THEN 1 ELSE 0
  \* the render effect has returned at wsprData.length === 0
  /\ opacity \in OpacityChoices
  /\ RenderIdle

WSPRIdle ==
  /\ wsprEnabled = FALSE
  /\ wsprData = <<>>
  /\ wsprInflight = 0
  /\ wsprIntervals = 0
  /\ opacity = DefaultOpacity
  /\ RenderIdle

\* The layer is switched on or off: the fetch effect is torn down
\* (clearInterval) and, when enabled, run again (fetchWSPR(), setInterval);
\* the render effect runs.
WsprSetEnabled ==
  /\ hook = "useLayer"
  /\ mounted
  /\ wsprEnabled' = ~wsprEnabled
  /\ IF ~wsprEnabled
     THEN /\ wsprInflight < MaxInflight
          /\ wsprInflight' = wsprInflight + 1
          /\ wsprIntervals' = 1
     ELSE /\ wsprIntervals' = 0
          /\ UNCHANGED wsprInflight
  /\ Commit(Settle([Rendered EXCEPT !.enabled = ~wsprEnabled]))
  /\ UNCHANGED <<wsprData, opacity>>
  /\ UNCHANGED <<hook, mounted, dxVars, pskVars, viewVars, codecVars, plotVars>>

\* The layer is rendered with another opacity: the render effect runs.
WsprSetOpacity(o) ==
  /\ hook = "useLayer"
  /\ mounted
  /\ o # opacity
  /\ opacity' = o
  /\ Commit(Settle([Rendered EXCEPT !.opacity = o]))
  /\ UNCHANGED fetchVars
  /\ UNCHANGED <<hook, mounted, dxVars, pskVars, viewVars, codecVars, plotVars>>

\* setInterval(fetchWSPR, 300000) fires; it exists while enabled.
WsprPollTimer ==
  /\ hook = "useLayer"
  /\ wsprIntervals > 0
  /\ wsprInflight < MaxInflight
  /\ wsprInflight' = wsprInflight + 1
  /\ UNCHANGED <<wsprEnabled, wsprData, wsprIntervals, renderVars>>
  /\ UNCHANGED <<hook, mounted, dxVars, pskVars, viewVars, codecVars, plotVars>>

\* A fetch resolves with response.ok: setWsprData(data.spots || []), a new
\* array, so the render effect runs.
WsprFetchOk(wsprSpots) ==
  /\ hook = "useLayer"
  /\ wsprInflight > 0
  /\ wsprInflight' = wsprInflight - 1
  /\ IF mounted
     THEN /\ wsprData' = wsprSpots
          /\ Commit(Settle([Rendered EXCEPT !.wsprData = wsprSpots]))
     ELSE UNCHANGED <<wsprData, pathLayers, markerLayers, legendControl, statsControl,
                      renderCleanup, mapLayers, mapControls, everAdded>>
  /\ UNCHANGED <<wsprEnabled, wsprIntervals, opacity>>
  /\ UNCHANGED <<hook, mounted, dxVars, pskVars, viewVars, codecVars, plotVars>>

\* A fetch resolves with a non-OK status, or fetch()/json() throws.
WsprFetchFail ==
  /\ hook = "useLayer"
  /\ wsprInflight > 0
  /\ wsprInflight' = wsprInflight - 1
  /\ UNCHANGED <<wsprEnabled, wsprData, wsprIntervals, renderVars>>
  /\ UNCHANGED <<hook, mounted, dxVars, pskVars, viewVars, codecVars, plotVars>>

\* ------------------------------------- useDXClusterData: filters and views
\* item.name of a JavaScript object: absent is the given falsy value.
Field(item, name, absent) == IF name \in DOMAIN item THEN item[name] ELSE absent

\* The characters of the strings the views compare.
Chars(s) ==
  CASE s = "K1" -> <<"K", "1">>
    [] s = "G0" -> <<"G", "0">>
    [] s = "W1" -> <<"W", "1">>
    [] s = "W2" -> <<"W", "2">>
    [] s = "k1" -> <<"k", "1">>
    [] s = "G" -> <<"G">>
    [] s = "1" -> <<"1">>
    [] s = "0" -> <<"0">>
    [] s = " w1 " -> <<" ", "w", "1", " ">>
    [] s = "  " -> <<" ", " ">>
    [] OTHER -> <<>>

\* Mutant of Trim: the search string is not trimmed.
TrimLeftOut(cs) == cs

\* String.prototype.trim
RECURSIVE Trim(_)
Trim(cs) ==
  IF cs = <<>> THEN cs
  ELSE IF Head(cs) = " " THEN Trim(Tail(cs))
  ELSE IF cs[Len(cs)] = " " THEN Trim(SubSeq(cs, 1, Len(cs) - 1))
  ELSE cs

\* String.prototype.startsWith and includes
StartsWith(cs, prefix) ==
  Len(prefix) <= Len(cs) /\ SubSeq(cs, 1, Len(prefix)) = prefix
Includes(cs, part) ==
  \E i \in 0..(Len(cs) - Len(part)) : SubSeq(cs, i + 1, i + Len(part)) = part

\* call?.toUpperCase().includes(w.toUpperCase()): undefined when call is
\* undefined (here ""), which is falsy.
CallIncludes(call, w) ==
  call # "" /\ Includes(ToUpperCase(Chars(call)), ToUpperCase(w))
CallStartsWith(call, w) ==
  call # "" /\ StartsWith(ToUpperCase(Chars(call)), ToUpperCase(w))

\* What getCallsignInfo returns for one callsign: cqZone, ituZone (0 when
\* not resolved) and continent ("" when not resolved).
Infos ==
  {[cqZone |-> 0, ituZone |-> 0, continent |-> ""],
   [cqZone |-> 14, ituZone |-> 27, continent |-> "EU"],
   [cqZone |-> 5, ituZone |-> 8, continent |-> "NA"]}
\* The callsigns of the reports: undefined is "".
ViewCalls == {"", "K1", "G0", "W1", "W2"}
\* The resolver is any function that resolves nothing for no callsign.
Resolvers ==
  {r \in [ViewCalls -> Infos] : r[""].cqZone = 0}

\* getBandFromFreq(parseFloat(item.freq) * 1000) of ../utils/callsign.js, a
\* classifier from a frequency to a band label, for the frequencies of the
\* reports.
getBandFromFreq(freq) ==
  CASE freq = "7" -> "40m"
    [] freq = "14" -> "20m"
    [] OTHER -> "other"
\* detectMode(item.comment) of ../utils/callsign.js, a classifier from the
\* free text to a mode label: the mode, or "" (null) when none is detected.
detectMode(comment) == IF comment = "FT8 -12" THEN "FT8" ELSE ""

\* item.dxCall || item.call on strings: "" is falsy.
OrElseCall(a, b) == IF a # "" THEN a ELSE b

\* filters.name?.length > 0, and the list itself
ListOf(f, name) == Field(f, name, <<>>)

\* The callback of data.filter in applyFilters: one report against the
\* configuration f, with the resolver info.
PassesFilters(item, f, info) ==
  LET spotterInfo == info[Field(item, "spotter", "")]
      call == OrElseCall(Field(item, "dxCall", ""), Field(item, "call", ""))
      dxInfo == info[call]
      watchlist == ListOf(f, "watchlist")
      excludeList == ListOf(f, "excludeList")
      cqZones == ListOf(f, "cqZones")
      ituZones == ListOf(f, "ituZones")
      continents == ListOf(f, "continents")
      bands == ListOf(f, "bands")
      modes == ListOf(f, "modes")
      search == Trim(Chars(Field(f, "callsign", "")))
  IN /\ (Field(f, "watchlistOnly", FALSE) /\ Len(watchlist) > 0) =>
          \E i \in 1..Len(watchlist) : CallIncludes(call, Chars(watchlist[i]))
     /\ Len(excludeList) > 0 =>
          ~ \E i \in 1..Len(excludeList) : CallStartsWith(call, Chars(excludeList[i]))
     /\ Len(cqZones) > 0 =>
          (spotterInfo.cqZone # 0 /\ spotterInfo.cqZone \in Range(cqZones))
     /\ Len(ituZones) > 0 =>
          (spotterInfo.ituZone # 0 /\ spotterInfo.ituZone \in Range(ituZones))
     /\ Len(continents) > 0 =>
          /\ spotterInfo.continent # "" /\ spotterInfo.continent \in Range(continents)
          /\ ~ (dxInfo.continent # "" /\ dxInfo.continent \in Range(continents))
     /\ Len(bands) > 0 => getBandFromFreq(item.freq) \in Range(bands)
     /\ Len(modes) > 0 =>
          LET mode == detectMode(Field(item, "comment", ""))
          IN mode # "" /\ mode \in Range(modes)
     /\ search # <<>> =>
          \/ CallIncludes(call, search)
          \/ CallIncludes(Field(item, "spotter", ""), search)

\* applyFilters(data, filters)
applyFilters(data, f, info) ==
  IF DOMAIN f = {} THEN data
  ELSE SelectSeq(data, LAMBDA item : PassesFilters(item, f, info))

\* One entry of spotList.
SpotOf(item) ==
  [call |-> Field(item, "dxCall", ""),
   freq |-> item.freq,
   comment |-> Field(item, "comment", ""),
   time |-> Field(item, "time", ""),
   spotter |-> Field(item, "spotter", ""),
   source |-> "DXCluster",
   timestamp |-> item.timestamp]

\* item.spotterLat != null && ... : absent (undefined) is null as well.
HasCoordinates(item) ==
  /\ Field(item, "spotterLat", Null).tag # "null"
  /\ Field(item, "spotterLon", Null).tag # "null"
  /\ Field(item, "dxLat", Null).tag # "null"
  /\ Field(item, "dxLon", Null).tag # "null"

spotList(filtered) == [i \in 1..Len(filtered) |-> SpotOf(filtered[i])]
\* Mutant of pathList: coordinates are tested for truthiness, as
\* usePSKReporter tests them (r.lat && r.lon): a coordinate of 0 is dropped.
pathListTruthy(filtered) ==
  SelectSeq(filtered, LAMBDA item :
    /\ Truthy(Field(item, "spotterLat", Null))
    /\ Truthy(Field(item, "spotterLon", Null))
    /\ Truthy(Field(item, "dxLat", Null))
    /\ Truthy(Field(item, "dxLon", Null)))

pathList(filtered) == SelectSeq(filtered, HasCoordinates)

\* return { spots, paths, loading, totalSpots: allData.length }, once the
\* view effect has run on the state.
useDXClusterDataReturn ==
  LET filtered == applyFilters(allData, filters, getCallsignInfo)
  IN [spots |-> spotList(filtered),
      paths |-> pathList(filtered),
      loading |-> loading,
      totalSpots |-> Len(allData)]

\* The fields of the value usePSKReporter returns that this model holds.
usePSKReporterReturn ==
  [txReports |-> txReports,
   txCount |-> Len(txReports),
   rxReports |-> rxReports,
   rxCount |-> Len(rxReports),
   loading |-> pskLoading,
   error |-> error]

\* The component that uses the hook is unmounted: the cleanup of every
\* effect runs (clearInterval, and what the render effect returned; the
\* state it sets is dropped); the fetches in flight are not cancelled.
Unmount ==
  /\ mounted
  /\ mounted' = FALSE
  /\ intervals' = <<>>
  /\ pskIntervals' = <<>>
  /\ wsprIntervals' = 0
  /\ UNCHANGED <<allData, loading, spotRetentionMinutes, inflight, now, lastFetchRef>>
  /\ UNCHANGED <<callsign, enabled, txReports, rxReports, pskLoading, error,
                 pskInflight, minutes, refreshInterval, reportsOf, answered>>
  /\ mapLayers' = RemoveLayers(mapLayers, renderCleanup.layers)
  /\ mapControls' = RemoveControl(RemoveControl(mapControls, renderCleanup.legendControl),
                                  renderCleanup.statsControl)
  /\ renderCleanup' = NoCleanup
  /\ UNCHANGED <<wsprEnabled, wsprData, wsprInflight>>
  /\ UNCHANGED <<opacity, pathLayers, markerLayers, legendControl, statsControl, everAdded>>
  /\ UNCHANGED <<hook, viewVars, codecVars, plotVars>>

\* The view state of a behaviour that does not follow the view effect.
ViewIdle ==
  /\ filters = <<>>
  /\ getCallsignInfo = [c \in ViewCalls |-> [cqZone |-> 0, ituZone |-> 0, continent |-> ""]]
  /\ spots = <<>>
  /\ paths = <<>>

\* ---------------------- getGreatCirclePath, getSNRColor and getLineWeight
\* Math.acos(sin(lat1) sin(lat2) + cos(lat1) cos(lat2) cos(lon2 - lon1)), as
\* far as the loop depends on it: "positive" (a number with sin(d) # 0),
\* "zero", or "NaN".  For one and the same point the argument of acos is
\* sin^2 + cos^2: exactly 1 on the equator (sin 0 = 0, cos 0 = 1), and
\* elsewhere 1, the double just below 1 or the double just above 1 (outside
\* the domain of acos), as the rounding of sin and cos has it.
Distances(lat1, lon1, lat2, lon2) ==
  IF lat1 = lat2 /\ lon1 = lon2
  THEN IF lat1 = 0 THEN {"zero"} ELSE {"zero", "positive", "NaN"}
  ELSE {"positive"}

\* Math.sin(k / numPoints * d) / Math.sin(d), counted in numPoints-ths of
\* the arc: NaN when d is NaN, and when d is 0 (0 / 0).
SinRatio(k, d) == IF d = "positive" THEN Num(k) ELSE NaN

\* One coordinate of the blend A * a + B * b converted back to degrees.  For
\* endpoints on the equator or on one meridian the point at the fraction f
\* of the arc has the coordinates a + f * (b - a).
Blend(A, B, c1, c2, numPoints) ==
  IF A.tag = "NaN" \/ B.tag = "NaN" THEN NaN
  ELSE Num((A.val * c1 + B.val * c2) \div numPoints)

\* getGreatCirclePath(lat1, lon1, lat2, lon2, numPoints), in whole degrees;
\* d is the distance the function has computed.
getGreatCirclePath(lat1, lon1, lat2, lon2, numPoints, d) ==
  [j \in 1..(numPoints + 1) |->
     LET i == j - 1
         A == SinRatio(numPoints - i, d)
         B == SinRatio(i, d)
     IN <<Blend(A, B, lat1, lat2, numPoints), Blend(A, B, lon1, lon2, numPoints)>>]

getSNRColor(snr) ==
  IF snr.tag = "null" THEN "#888888"
  ELSE IF snr.val < -20 THEN "#ff0000"
  ELSE IF snr.val < -10 THEN "#ff6600"
  ELSE IF snr.val < 0 THEN "#ffaa00"
  ELSE IF snr.val < 5 THEN "#ffff00"
  ELSE "#00ff00"

\* getLineWeight with the band from -20 closed at the wrong end.
getLineWeightClosedAbove(snr) ==
  IF snr.tag = "null" THEN 2
  ELSE IF snr.val <= -20 THEN 2
  ELSE IF snr.val < -10 THEN 3
  ELSE IF snr.val < 0 THEN 4
  ELSE IF snr.val < 5 THEN 5
  ELSE 6

\* getLineWeight(snr), in halves of a pixel: 1, 1.5, 2, 2.5 and 3.
getLineWeight(snr) ==
  IF snr.tag = "null" THEN 2
  ELSE IF snr.val < -20 THEN 2
  ELSE IF snr.val < -10 THEN 3
  ELSE IF snr.val < 0 THEN 4
  ELSE IF snr.val < 5 THEN 5
  ELSE 6

\* Endpoints in whole degrees, on the equator or on the meridian of
\* Greenwich; both endpoints of a path lie on one of the two.
PathLatitudes == {-60, 0, 60}
PathLongitudes == {-60, 0, 60}
\* spot.snr: dB around every threshold, or null / undefined.
SnrValues == {Num(n) : n \in {-21, -20, -19, -11, -10, -9, -1, 0, 1, 4, 5, 6}} \cup {Null}

PathArguments ==
  {args \in [lat1 : PathLatitudes, lon1 : PathLongitudes,
             lat2 : PathLatitudes, lon2 : PathLongitudes,
             numPoints : 1..MaxNumPoints, snr : SnrValues] :
     \/ args.lat1 = 0 /\ args.lat2 = 0
     \/ args.lon1 = 0 /\ args.lon2 = 0}

\* No path has been computed and no style chosen.
NotPlotted == [pathCoords |-> <<>>, color |-> "", weight |-> 0]

PlotIdle ==
  /\ pathArgs = <<>>
  /\ polyline = NotPlotted

\* ------------------------------------------------ gridToLatLon on its own
\* gridToLatLon of useWSPR.js: the function of usePSKReporter.js under other
\* names.
wsprGridToLatLon(wsprGrid) ==
  IF wsprGrid = <<>> \/ Len(wsprGrid) < 4 THEN [null |-> TRUE, lat |-> Null, lon |-> Null]
  ELSE
    LET g == ToUpperCase(wsprGrid)
        lon == CodeMinus65(g[1]) * 20 - 180
        lat == CodeMinus65(g[2]) * 10 - 90
        lon2 == ParseInt(g[3])
        lat2 == ParseInt(g[4])
        six == Len(g) >= 6
        lon3 == IF six THEN CodeMinus65(g[5]) * 4 + 2 ELSE DegreeScale
        lat3 == IF six THEN CodeMinus65(g[6]) * 2 + 1 ELSE DegreeScale \div 2
    IN [null |-> FALSE,
        lat |-> PlusParsed(lat * DegreeScale + lat3, lat2, DegreeScale),
        lon |-> PlusParsed(lon * DegreeScale + lon3, lon2, 2 * DegreeScale)]

\* The locators handed to gridToLatLon: none, one too short, four characters
\* that are or are not of the locator alphabet, FN31 with a sub-square, DN70,
\* and the first and the last cell of the grid.
Locators ==
  {<<>>, <<"F", "N">>}
  \cup {<<a, b, c, d>> : a, b \in {"F", "r", "Z", "5"}, c, d \in {"3", "9", "A"}}
  \cup {<<"F", "N", "3", "1", e, f>> : e, f \in {"p", "X", "Z", "7"}}
  \cup {<<"D", "N", "7", "0">>, <<"A", "A", "0", "0">>, <<"R", "R", "9", "9">>,
        <<"A", "A", "0", "0", "a", "a">>, <<"R", "R", "9", "9", "x", "x">>}

\* No call of gridToLatLon has returned.
NotDecoded == [by |-> "none", point |-> [null |-> TRUE, lat |-> Null, lon |-> Null]]

CodecIdle ==
  /\ locator = <<>>
  /\ decoded = NotDecoded

CodecInit ==
  /\ hook = "gridToLatLon"
  /\ mounted = TRUE
  /\ locator \in Locators
  /\ decoded = NotDecoded
  /\ spotRetentionMinutes = 0
  /\ DXIdle
  /\ PSKIdle
  /\ WSPRIdle
  /\ ViewIdle
  /\ PlotIdle

\* usePSKReporter.js calls its gridToLatLon.
DecodePsk ==
  /\ hook = "gridToLatLon"
  /\ decoded' = [by |-> "usePSKReporter", point |-> gridToLatLon(locator)]
  /\ UNCHANGED <<locator, hook, mounted, dxVars, pskVars, wsprVars, viewVars, plotVars>>

\* useWSPR.js calls its gridToLatLon.
DecodeWspr ==
  /\ hook = "gridToLatLon"
  /\ decoded' = [by |-> "useWSPR", point |-> wsprGridToLatLon(locator)]
  /\ UNCHANGED <<locator, hook, mounted, dxVars, pskVars, wsprVars, viewVars, plotVars>>

CodecNext == DecodePsk \/ DecodeWspr

CodecSpec == CodecInit /\ [][CodecNext]_vars

\* ----------------------------------------- one path of the layer on its own
PlotInit ==
  /\ hook = "getGreatCirclePath"
  /\ mounted = TRUE
  /\ pathArgs \in PathArguments
  /\ polyline = NotPlotted
  /\ spotRetentionMinutes = 0
  /\ DXIdle
  /\ PSKIdle
  /\ WSPRIdle
  /\ ViewIdle
  /\ CodecIdle

\* const pathCoords = getGreatCirclePath(...)
GreatCirclePath ==
  /\ hook = "getGreatCirclePath"
  /\ \E d \in Distances(pathArgs.lat1, pathArgs.lon1, pathArgs.lat2, pathArgs.lon2) :
        polyline' = [polyline EXCEPT !.pathCoords =
                       getGreatCirclePath(pathArgs.lat1, pathArgs.lon1, pathArgs.lat2,
                                          pathArgs.lon2, pathArgs.numPoints, d)]
  /\ UNCHANGED <<pathArgs, hook, mounted, dxVars, pskVars, wsprVars, viewVars, codecVars>>

\* { color: getSNRColor(spot.snr), weight: getLineWeight(spot.snr) }
LineStyle ==
  /\ hook = "getGreatCirclePath"
  /\ polyline' = [polyline EXCEPT !.color = getSNRColor(pathArgs.snr),
                                  !.weight = getLineWeight(pathArgs.snr)]
  /\ UNCHANGED <<pathArgs, hook, mounted, dxVars, pskVars, wsprVars, viewVars, codecVars>>

PlotNext == GreatCirclePath \/ LineStyle

PlotSpec == PlotInit /\ [][PlotNext]_vars

\* --------------------------------------------- the view effect on its own
\* Retained reports as the views see them: with a comment and coordinates,
\* with one coordinate null, with a coordinate of 0, with neither comment nor
\* coordinates.
ViewReports ==
  {[dxCall |-> "K1", freq |-> "7", spotter |-> "W1", timestamp |-> 3,
    comment |-> "FT8 -12",
    spotterLat |-> Num(1944), spotterLon |-> Num(-5040),
    dxLat |-> Num(2472), dxLon |-> Num(-48)],
   [dxCall |-> "G0", freq |-> "14", spotter |-> "W1", timestamp |-> 2,
    comment |-> "",
    spotterLat |-> Null, spotterLon |-> Num(-5040),
    dxLat |-> Num(2472), dxLon |-> Num(-48)],
   [dxCall |-> "K1", freq |-> "7", spotter |-> "W2", timestamp |-> 2,
    comment |-> "CQ",
    spotterLat |-> Num(1944), spotterLon |-> Num(-5040),
    dxLat |-> Num(0), dxLon |-> Num(0)],
   [dxCall |-> "G0", freq |-> "14", spotter |-> "W2", timestamp |-> 1]}

\* The retained sets the views are taken of: what an ingest leaves, that is
\* at most MaxCapacity reports of distinct keys, newest first.
ViewDataSets ==
  {d \in UNION {[1..n -> ViewReports] : n \in 0..MaxCapacity} :
     \A i, j \in 1..Len(d) :
       i < j => (KeyOf(d[i]) # KeyOf(d[j]) /\ d[i].timestamp >= d[j].timestamp)}

\* The filters argument: none, the retention only, every criterion empty,
\* and each criterion on its own; the watchlist and the exclude list with
\* the beginning of a call and with characters from inside one.
FilterConfigs ==
  {<<>>,
   [spotRetentionMinutes |-> 15],
   [watchlistOnly |-> FALSE, watchlist |-> <<>>, excludeList |-> <<>>,
    cqZones |-> <<>>, ituZones |-> <<>>, continents |-> <<>>,
    bands |-> <<>>, modes |-> <<>>, callsign |-> "  "],
   [watchlistOnly |-> TRUE, watchlist |-> <<>>],
   [watchlistOnly |-> TRUE, watchlist |-> <<"k1">>],
   [watchlistOnly |-> TRUE, watchlist |-> <<"1">>],
   [excludeList |-> <<"G">>],
   [excludeList |-> <<"0">>],
   [cqZones |-> <<5>>],
   [ituZones |-> <<27>>],
   [continents |-> <<"EU">>],
   [continents |-> <<"EU", "NA">>],
   [bands |-> <<"20m">>],
   [modes |-> <<"FT8">>],
   [callsign |-> " w1 "]}

\* The view effect: setSpots(spotList); setPaths(pathList).
ViewEffect(data, f, info) ==
  LET filtered == applyFilters(data, f, info)
  IN /\ spots' = spotList(filtered)
     /\ paths' = pathList(filtered)

\* A mounted useDXClusterData between fetches, its view effect run.
ViewInit ==
  /\ hook = "useDXClusterData"
  /\ mounted = TRUE
  /\ allData \in ViewDataSets
  /\ filters \in FilterConfigs
  /\ getCallsignInfo \in Resolvers
  /\ spots = spotList(applyFilters(allData, filters, getCallsignInfo))
  /\ paths = pathList(applyFilters(allData, filters, getCallsignInfo))
  /\ loading = FALSE
  /\ now = MaxNow
  /\ spotRetentionMinutes = 0
  /\ inflight = [w \in Windows |-> 0]
  /\ intervals = <<spotRetentionMs>>
  /\ lastFetchRef = MaxNow
  /\ PSKIdle
  /\ WSPRIdle
  /\ CodecIdle
  /\ PlotIdle

\* The hook is rendered with other filters: the view effect runs.
SetFilters(f) ==
  /\ f # filters
  /\ filters' = f
  /\ ViewEffect(allData, f, getCallsignInfo)
  /\ UNCHANGED <<allData, getCallsignInfo>>
  /\ UNCHANGED <<loading, spotRetentionMinutes, inflight, now, intervals, lastFetchRef>>
  /\ UNCHANGED <<hook, mounted, pskVars, wsprVars, codecVars, plotVars>>

\* setAllData has put another retained set: the view effect runs.
AllDataChanged(data) ==
  /\ data # allData
  /\ allData' = data
  /\ ViewEffect(data, filters, getCallsignInfo)
  /\ UNCHANGED <<filters, getCallsignInfo>>
  /\ UNCHANGED <<loading, spotRetentionMinutes, inflight, now, intervals, lastFetchRef>>
  /\ UNCHANGED <<hook, mounted, pskVars, wsprVars, codecVars, plotVars>>

ViewNext ==
  \/ \E f \in FilterConfigs : SetFilters(f)
  \/ \E data \in ViewDataSets : AllDataChanged(data)

ViewSpec == ViewInit /\ [][ViewNext]_vars

\* ------------------------------------------------------------ the system
\* One of the three hooks is mounted; the hooks share no state.
Init ==
  /\ hook \in {"useDXClusterData", "usePSKReporter", "useLayer"}
  /\ mounted = TRUE
  /\ IF hook = "useDXClusterData"
     THEN spotRetentionMinutes \in RetentionChoices /\ DXInit
     ELSE DXIdle
  /\ IF hook = "usePSKReporter"
     THEN /\ callsign \in Callsigns
          /\ enabled \in BOOLEAN
          /\ minutes \in MinutesChoices
          /\ refreshInterval \in RefreshChoices
          /\ PSKInit
     ELSE PSKIdle
  /\ IF hook = "useLayer"
     THEN wsprEnabled \in BOOLEAN /\ WSPRInit
     ELSE WSPRIdle
  /\ ViewIdle
  /\ CodecIdle
  /\ PlotIdle

Next ==
  \/ Tick
  \/ PollTimer
  \/ \E w \in Windows, b \in Batches : FetchOk(w, b)
  \/ \E w \in Windows : FetchFail(w)
  \/ \E m \in RetentionChoices : SetRetention(m)
  \/ PskPollTimer
  \/ PskRefresh
  \/ \E c \in Callsigns : SetCallsign(c)
  \/ SetEnabled
  \/ \E m \in MinutesChoices : SetMinutes(m)
  \/ \E refresh \in RefreshChoices : SetRefreshInterval(refresh)
  \/ \E c \in ValidCallsigns, data \in PskResponses : PskFetchOk(c, data)
  \/ \E c \in ValidCallsigns, message \in FailureMessages : PskFetchFail(c, message)
  \/ WsprSetEnabled
  \/ \E o \in OpacityChoices : WsprSetOpacity(o)
  \/ WsprPollTimer
  \/ \E wsprSpots \in WsprResponses : WsprFetchOk(wsprSpots)
  \/ WsprFetchFail
  \/ Unmount

Spec == Init /\ [][Next]_vars

\* ------------------------------------- the feed with malformed raw reports
\* Identity triples of a feed that leaves fields out: a field that is not
\* there reads undefined, which the key template prints as "undefined".
FeedIdentities ==
  {<<"undefined", "7", "W1">>, <<"K1", "7", "undefined">>, <<"K1", "7", "W1">>}

FeedReports == {RawReport(id, ts) : id \in FeedIdentities, ts \in {0, 1}}

FeedBatches == UNION {[1..n -> FeedReports] : n \in 0..MaxBatch}

FeedInit ==
  /\ Init
  /\ hook = "useDXClusterData"

FeedNext ==
  \/ Tick
  \/ PollTimer
  \/ \E w \in Windows, b \in FeedBatches : FetchOk(w, b)
  \/ \E retention \in RetentionChoices : SetRetention(retention)

FeedSpec == FeedInit /\ [][FeedNext]_vars

\* -------------------------- useDXClusterData mounted, under fair polling
\* The hook stays mounted; time passes, the interval timer keeps firing
\* (setInterval) and fetches keep succeeding, among any that fail.
\* What the source delivers: two stations reported with the timestamp of
\* the first clock reading, one of them also with none.
LiveReports ==
  {RawReport(<<"K1", "7", "W1">>, 0), RawReport(<<"K1", "7", "W1">>, 1),
   RawReport(<<"G0", "14", "W1">>, 1)}
LiveBatches == UNION {[1..n -> LiveReports] : n \in 0..MaxBatch}

LiveInit ==
  /\ Init
  /\ hook = "useDXClusterData"

LiveNext ==
  \/ Tick
  \/ PollTimer
  \/ \E w \in Windows, b \in LiveBatches : FetchOk(w, b)
  \/ \E w \in Windows : FetchFail(w)
  \/ \E retention \in RetentionChoices : SetRetention(retention)

LiveSpec ==
  /\ LiveInit
  /\ [][LiveNext]_vars
  /\ WF_vars(Tick)
  /\ WF_vars(PollTimer)
  /\ SF_vars(\E w \in Windows, b \in LiveBatches : FetchOk(w, b))

\* ----------------- useDXClusterData with the retention set far up and down
StaleInit ==
  /\ hook = "useDXClusterData"
  /\ mounted = TRUE
  /\ spotRetentionMinutes \in StaleRetentionChoices
  /\ DXInit
  /\ PSKIdle
  /\ WSPRIdle
  /\ ViewIdle
  /\ CodecIdle
  /\ PlotIdle

StaleNext ==
  \/ Tick
  \/ PollTimer
  \/ \E w \in Windows, b \in LiveBatches : FetchOk(w, b)
  \/ \E retention \in StaleRetentionChoices : SetRetention(retention)

StaleSpec == StaleInit /\ [][StaleNext]_vars

\* ------------- the feed with the separator of the key inside its fields
\* Identity triples whose calls hold a '-': a call with a suffix on one
\* frequency, and a spotter whose call begins where that frequency would.
DashIdentities ==
  {<<"K1-7", "14", "W1">>, <<"K1", "7", "14-W1">>, <<"G0", "14", "W1">>}

DashReports == {RawReport(id, ts) : id \in DashIdentities, ts \in {0, 1}}

DashBatches == UNION {[1..n -> DashReports] : n \in 0..MaxBatch}

DashNext ==
  \/ Tick
  \/ PollTimer
  \/ \E w \in Windows, b \in DashBatches : FetchOk(w, b)
  \/ \E retention \in RetentionChoices : SetRetention(retention)

DashSpec == LiveInit /\ [][DashNext]_vars

\* ------------------ usePSKReporter with a receiver on the equator
\* The reports of data.tx.reports: coordinates given (40.5, -105), a
\* receiver at latitude 0 and longitude 10 with no locator, a locator only.
EquatorTxReports ==
  {[lat |-> Num(1944), lon |-> Num(-5040), receiverGrid |-> <<>>],
   [lat |-> Num(0), lon |-> Num(480), receiverGrid |-> <<>>],
   [lat |-> Null, lon |-> Null, receiverGrid |-> <<"F", "N", "3", "1">>]}

EquatorResponses ==
  [tx : ListsOf(EquatorTxReports), rx : ListsOf(RxRawReports), error : {""}]

EquatorInit ==
  /\ Init
  /\ hook = "usePSKReporter"

EquatorNext ==
  \/ PskPollTimer
  \/ PskRefresh
  \/ \E c \in Callsigns : SetCallsign(c)
  \/ SetEnabled
  \/ \E c \in ValidCallsigns, data \in EquatorResponses : PskFetchOk(c, data)
  \/ \E c \in ValidCallsigns, message \in FailureMessages : PskFetchFail(c, message)

EquatorSpec == EquatorInit /\ [][EquatorNext]_vars

\* ------- useDXClusterData or usePSKReporter mounted, fetches completing
\* The hook stays mounted and every fetch that was started completes in the
\* end: fetch() resolves or rejects.
SettleResponses ==
  {[tx |-> <<>>, rx |-> <<>>, error |-> ""],
   [tx |-> <<[lat |-> Num(1944), lon |-> Num(-5040), receiverGrid |-> <<>>]>>,
    rx |-> <<>>, error |-> "upstream error"]}

FetchCompletes ==
  \/ \E w \in Windows, b \in LiveBatches : FetchOk(w, b)
  \/ \E w \in Windows : FetchFail(w)

PskFetchCompletes ==
  \/ \E c \in ValidCallsigns, data \in SettleResponses : PskFetchOk(c, data)
  \/ \E c \in ValidCallsigns, message \in FailureMessages : PskFetchFail(c, message)

SettleInit ==
  /\ Init
  /\ hook \in {"useDXClusterData", "usePSKReporter"}

SettleNext ==
  \/ Tick
  \/ PollTimer
  \/ FetchCompletes
  \/ \E retention \in RetentionChoices : SetRetention(retention)
  \/ PskPollTimer
  \/ PskRefresh
  \/ \E c \in Callsigns : SetCallsign(c)
  \/ SetEnabled
  \/ \E m \in MinutesChoices : SetMinutes(m)
  \/ \E refresh \in RefreshChoices : SetRefreshInterval(refresh)
  \/ PskFetchCompletes

SettleSpec ==
  /\ SettleInit
  /\ [][SettleNext]_vars
  /\ WF_vars(FetchCompletes)
  /\ WF_vars(PskFetchCompletes)

\* ------------------------------------------------------------ vocabulary
\* The identity triple of a report.
Identity(item) == <<item.dxCall, item.freq, item.spotter>>

\* The windows held by the closures of the fetches awaiting their response
\* while the component is mounted: a response that arrives now is ingested
\* with one of them.
PendingWindows == {w \in Windows : mounted /\ inflight[w] > 0}

\* The reorderings of a batch.
Reorderings(batch) ==
  {[i \in 1..Len(batch) |-> batch[p[i]]] :
     p \in {q \in [1..Len(batch) -> 1..Len(batch)] :
              \A i, j \in 1..Len(batch) : i # j => q[i] # q[j]}}

\* The last report of a batch that has the identity of `item`.
LastWithIdentity(batch, item) ==
  batch[CHOOSE i \in 1..Len(batch) :
          /\ Identity(batch[i]) = Identity(item)
          /\ \A j \in (i + 1)..Len(batch) : Identity(batch[j]) # Identity(item)]

PairwiseDistinct(batch) ==
  \A i, j \in 1..Len(batch) : i # j => Identity(batch[i]) # Identity(batch[j])

\* ------------------------------------------------------------------ claims
\* C1: in every reachable state the retained set (allData) holds at most
\* maxCapacity entries.
CapacityBound == Len(allData) <= MaxCapacity

\* C1 witness: the retained set is full while a response is awaited whose
\* batch would bring more non-stale reports than the capacity.
CapacityBoundWitness ==
  /\ Len(allData) = MaxCapacity
  /\ \E w \in PendingWindows, b \in Batches :
       Len(ValidItems(Merged(allData, b, now), now, w)) > MaxCapacity

\* C2: when an ingest leaves more than maxCapacity distinct-key, non-stale
\* reports after merging, exactly maxCapacity of them are retained, and every
\* retained entry is at least as recent as every entry the capacity step drops.
CapacityKeepsMostRecent ==
  \A w \in PendingWindows, b \in Batches :
    LET valid == ValidItems(Merged(allData, b, now), now, w)
        kept == Ingest(allData, b, now, w)
    IN Len(valid) > MaxCapacity =>
         /\ Len(kept) = MaxCapacity
         /\ Range(kept) \subseteq Range(valid)
         /\ \A e \in Range(kept), d \in Range(valid) \ Range(kept) :
              e.timestamp >= d.timestamp

\* C2 witness: a response is awaited whose batch would leave more than
\* maxCapacity non-stale reports of different ages, the oldest of them one
\* that is retained now.
CapacityKeepsMostRecentWitness ==
  /\ allData # <<>>
  /\ \E w \in PendingWindows, b \in Batches :
       LET valid == ValidItems(Merged(allData, b, now), now, w)
           kept == Ingest(allData, b, now, w)
       IN /\ Len(valid) > MaxCapacity
          /\ \E d \in Range(valid) \ Range(kept) :
               /\ d \in Range(allData)
               /\ \A e \in Range(kept) : e.timestamp > d.timestamp

\* C3 (as claimed): eviction drops an entry of the merged set if and only if
\* its age is strictly greater than the retention window; an entry whose age
\* equals the window is kept.
EvictsOnlyOlderThanWindow ==
  \A w \in PendingWindows, b \in Batches :
    LET merged == Merged(allData, b, now)
        valid == ValidItems(merged, now, w)
    IN \A e \in Range(merged) :
         (e \notin Range(valid)) <=> (now - e.timestamp > w)

UniqueIdentities ==
  \A i, j \in 1..Len(allData) :
    i # j => Identity(allData[i]) # Identity(allData[j])

\* C5 witness: two spots that differ in the spotter only are both retained
\* while a response is awaited that may deliver either of them again.
UniqueIdentitiesWitness ==
  /\ Len(allData) = 2
  /\ allData[1].dxCall = allData[2].dxCall
  /\ allData[1].freq = allData[2].freq
  /\ PendingWindows # {}

\* C6: merge is last-write-wins per key: after an ingest, the entry retained
\* for the key of a report of the batch is the last report of the batch with
\* that key, field for field (its timestamp, when it has none, being the time
\* of the ingest).
LastWriteWins ==
  \A w \in PendingWindows, b \in Batches :
    LET kept == Ingest(allData, b, now, w)
    IN \A i \in 1..Len(b), e \in Range(kept) :
         Identity(e) = Identity(b[i]) =>
           e = Stamped(LastWithIdentity(b, b[i]), now)

\* C6 witness: a report is retained, and a response is awaited whose batch
\* holds two other versions of it, the second of which would be retained.
LastWriteWinsWitness ==
  \E w \in PendingWindows, b \in Batches :
    /\ Len(b) = 2
    /\ Identity(b[1]) = Identity(b[2])
    /\ b[1].timestamp # b[2].timestamp
    /\ \E e \in Range(allData) :
         /\ Identity(e) = Identity(b[2])
         /\ e # Stamped(b[2], now)
         /\ e # Stamped(b[1], now)
    /\ Stamped(b[2], now) \in Range(Ingest(allData, b, now, w))

\* C7 (as claimed): re-ingesting a raw report that carries no timestamp and
\* whose key is retained leaves the stored timestamp of that entry unchanged.
StoredTimestampAssignedOnce ==
  \A w \in PendingWindows, r \in RawReports :
    r.timestamp = 0 =>
      \A e \in Range(allData), f \in Range(Ingest(allData, <<r>>, now, w)) :
        (Identity(e) = Identity(r) /\ Identity(f) = Identity(r)) =>
          f.timestamp = e.timestamp

\* C8 (as claimed): ingesting the same batch a second time, now or at any
\* later time, leaves the size and the set of retained reports unchanged.
IngestTwiceAnyTime ==
  \A w \in PendingWindows, b \in Batches, later \in now..MaxNow :
    LET once == Ingest(allData, b, now, w)
        twice == Ingest(once, b, later, w)
    IN /\ Len(twice) = Len(once)
       /\ {Identity(e) : e \in Range(twice)} = {Identity(e) : e \in Range(once)}

\* C8 (amended): ingesting the same batch a second time at the same clock
\* reading and with the same retention window leaves the retained set as the
\* first ingest left it: same size, same entries, same order.
IngestTwiceSameTime ==
  \A w \in PendingWindows, b \in Batches :
    LET once == Ingest(allData, b, now, w)
    IN Ingest(once, b, now, w) = once

\* C8 witness: a response is awaited whose batch replaces a retained entry,
\* adds a report and loses one to the capacity limit.
IngestTwiceSameTimeWitness ==
  \E w \in PendingWindows, b \in Batches :
    LET once == Ingest(allData, b, now, w)
    IN /\ Len(b) = 2
       /\ once # allData
       /\ Len(allData) = MaxCapacity
       /\ \E i \in 1..2 : Stamped(b[i], now) \in Range(once)
       /\ \E e \in Range(allData) : e \notin Range(once)

\* C9 (as claimed): reordering the items of a batch leaves the retained state
\* the same: same keys, same stored fields, same list order.
ReorderedBatchSameState ==
  \A w \in PendingWindows, b \in Batches :
    \A c \in Reorderings(b) :
      Ingest(allData, c, now, w) = Ingest(allData, b, now, w)

\* C9 (amended): reordering a batch whose reports have pairwise distinct keys
\* leaves the same set of retained entries, provided the merged non-stale
\* entries fit within the capacity; and two batches of one tick whose reports
\* all have pairwise distinct keys leave the same set of retained entries in
\* either order, provided neither order loses an entry to the capacity limit.
ReorderedDistinctKeysSameSet ==
  \A w \in PendingWindows, b \in Batches :
    PairwiseDistinct(b) =>
      /\ \A c \in Reorderings(b) :
           Len(ValidItems(Merged(allData, b, now), now, w)) <= MaxCapacity =>
             Range(Ingest(allData, c, now, w)) = Range(Ingest(allData, b, now, w))
      /\ \A k \in 0..Len(b) :
           LET b1 == SubSeq(b, 1, k)
               b2 == SubSeq(b, k + 1, Len(b))
               fits(s, x) == Len(ValidItems(Merged(s, x, now), now, w)) <= MaxCapacity
               first1 == Ingest(allData, b1, now, w)
               first2 == Ingest(allData, b2, now, w)
           IN (fits(allData, b1) /\ fits(first1, b2) /\
               fits(allData, b2) /\ fits(first2, b1)) =>
                Range(Ingest(first1, b2, now, w)) = Range(Ingest(first2, b1, now, w))

\* C9 witness: a report is retained and a response is awaited whose batch of
\* two reports with different keys fits, and whose two orders give different
\* list orders.
ReorderedDistinctKeysSameSetWitness ==
  \E w \in PendingWindows, b \in Batches :
    /\ allData # <<>>
    /\ Len(b) = 2
    /\ PairwiseDistinct(b)
    /\ Len(ValidItems(Merged(allData, b, now), now, w)) <= MaxCapacity
    /\ Ingest(allData, <<b[2], b[1]>>, now, w) # Ingest(allData, b, now, w)

\* C10: a failed fetch leaves the retained data as it was: allData of
\* useDXClusterData, txReports and rxReports of usePSKReporter, wsprData of
\* the WSPR layer.
FailedFetchKeepsData ==
  [][/\ (\E w \in Windows : FetchFail(w)) => allData' = allData
     /\ (\E c \in ValidCallsigns, message \in FailureMessages : PskFetchFail(c, message))
          => (txReports' = txReports /\ rxReports' = rxReports)
     /\ WsprFetchFail => wsprData' = wsprData]_vars

\* C10 witness: usePSKReporter shows the message of a failed fetch beside
\* the reports of an earlier response.
FailedFetchKeepsDataWitness ==
  /\ error \in FailureMessages
  /\ txReports # <<>>
  /\ rxReports # <<>>

\* The error status a caller reads off a returned value: value.error, which
\* is undefined ("null") when the value has no such field.
ErrorStatus(value) == Field(value, "error", "null")

\* C11 (as claimed): every failed fetch leaves an error status in the value
\* the hook returns, for useDXClusterData as for usePSKReporter.
FailedFetchSurfaced ==
  [][/\ (\E w \in Windows : FetchFail(w)) =>
          ErrorStatus(useDXClusterDataReturn)' # "null"
     /\ (\E c \in ValidCallsigns, message \in FailureMessages :
           PskFetchFail(c, message)) =>
          ErrorStatus(usePSKReporterReturn)' # "null"]_vars

PathsAreTheLocatedSpots ==
  LET filtered == applyFilters(allData, filters, getCallsignInfo)
      located(item) ==
        \A name \in {"spotterLat", "spotterLon", "dxLat", "dxLon"} :
          name \in DOMAIN item /\ item[name] # Null
  IN /\ Len(spots) = Len(filtered)
     /\ \A i \in 1..Len(filtered) :
          /\ spots[i].call = filtered[i].dxCall
          /\ spots[i].freq = filtered[i].freq
          /\ spots[i].spotter = filtered[i].spotter
          /\ (filtered[i] \in Range(paths)) <=> located(filtered[i])
     /\ \A p \in Range(paths) : p \in Range(filtered)
     /\ \A i, j \in 1..Len(paths) :
          i < j => paths[i].timestamp >= paths[j].timestamp

\* C14 witness: two reports pass the filters, one with a latitude of 0 and
\* one without coordinates: both are in the list, the first alone in paths.
PathsAreTheLocatedSpotsWitness ==
  /\ Len(spots) = 2
  /\ Len(paths) = 1
  /\ paths[1].dxLat = Num(0)
  /\ DOMAIN filters # {}

\* C15: the retained set is ordered by recency in every state, whatever
\* ingests and retention changes led to it: timestamps do not increase from
\* one entry to the next; and so are the list and the paths taken of it
\* under any filters.
RecencyOrdered ==
  LET ordered(list) ==
        \A i, j \in 1..Len(list) : i < j => list[i].timestamp >= list[j].timestamp
  IN /\ ordered(allData)
     /\ \A f \in FilterConfigs :
          LET filtered == applyFilters(allData, f, getCallsignInfo)
          IN ordered(spotList(filtered)) /\ ordered(pathList(filtered))

\* C15 witness: after a retention change and an ingest the retained set
\* holds a report of the feed and, behind it, an older one.
RecencyOrderedWitness ==
  /\ Len(allData) = 2
  /\ allData[1].timestamp > allData[2].timestamp
  /\ spotRetentionMinutes = 2
  /\ inflight[1] > 0
  /\ lastFetchRef = now

\* Filters in which every criterion is absent or empty.
NoCriterion(f) ==
  /\ ~Field(f, "watchlistOnly", FALSE)
  /\ \A name \in {"excludeList", "cqZones", "ituZones", "continents", "bands", "modes"} :
       Field(f, name, <<>>) = <<>>
  /\ \A c \in Range(Chars(Field(f, "callsign", ""))) : c = " "

\* C16: filters in which every criterion is absent or empty match every
\* report: the list has one entry for each retained report, in order,
\* whatever the resolver answers.
EmptyFiltersMatchAll ==
  NoCriterion(filters) =>
    /\ Len(spots) = Len(allData)
    /\ \A i \in 1..Len(allData) :
         /\ spots[i].call = allData[i].dxCall
         /\ spots[i].freq = allData[i].freq
         /\ spots[i].spotter = allData[i].spotter
         /\ spots[i].timestamp = allData[i].timestamp

\* C16 witness: every criterion is there and empty, the callsign is blank,
\* the resolver resolves none of the stations, and both retained reports
\* are in the list.
EmptyFiltersMatchAllWitness ==
  /\ NoCriterion(filters)
  /\ {"continents", "callsign"} \subseteq DOMAIN filters
  /\ \A c \in ViewCalls : getCallsignInfo[c].continent = ""
  /\ Len(allData) = 2
  /\ Len(spots) = 2

\* C17 (as claimed): with a non-empty continents set, a report is in the
\* list only if its spotter resolves to a continent of the set and its DX
\* station resolves to a continent that is not in the set.
ContinentAsymmetry ==
  LET continents == Field(filters, "continents", <<>>)
  IN Len(continents) > 0 =>
       \A i \in 1..Len(spots) :
         /\ getCallsignInfo[spots[i].spotter].continent \in Range(continents)
         /\ getCallsignInfo[spots[i].call].continent # ""
         /\ getCallsignInfo[spots[i].call].continent \notin Range(continents)

\* C18 (as claimed): a criterion that is set excludes every report whose
\* metadata for it is not resolved: the CQ zone, ITU zone or continent of
\* the spotter, the mode, and the continent of the DX station.
FiltersFailClosed ==
  \A i \in 1..Len(spots) :
    LET spotterInfo == getCallsignInfo[spots[i].spotter]
        dxInfo == getCallsignInfo[spots[i].call]
        set(name) == Len(Field(filters, name, <<>>)) > 0
    IN /\ set("cqZones") => spotterInfo.cqZone # 0
       /\ set("ituZones") => spotterInfo.ituZone # 0
       /\ set("continents") => spotterInfo.continent # ""
       /\ set("modes") => detectMode(spots[i].comment) # ""
       /\ set("continents") => dxInfo.continent # ""

\* C19 (as claimed): a raw report that lacks an identity field (dxCall, freq
\* or spotter) is never put into the retained set.
MalformedReportSkipped ==
  \A e \in Range(allData) :
    /\ e.dxCall # "undefined"
    /\ e.freq # "undefined"
    /\ e.spotter # "undefined"

\* A locator of 4 or 6 characters of the locator alphabet: field letters
\* A-R, square digits 0-9, sub-square letters A-X, in either case.
WellFormed(loc) ==
  LET g == ToUpperCase(loc)
      letters(n) == {UpperCase[i] : i \in 1..n}
  IN /\ Len(g) \in {4, 6}
     /\ g[1] \in letters(18) /\ g[2] \in letters(18)
     /\ g[3] \in Range(DigitChars) /\ g[4] \in Range(DigitChars)
     /\ Len(g) = 6 => (g[5] \in letters(24) /\ g[6] \in letters(24))

\* C20 (as claimed): gridToLatLon returns null for every malformed locator,
\* and a point it returns has a latitude within -90..90 and a longitude
\* within -180..180, never NaN.
DecodeMalformedIsNull ==
  decoded.by # "none" =>
    /\ ~WellFormed(locator) => decoded.point.null
    /\ ~decoded.point.null =>
         /\ decoded.point.lat.tag = "num"
         /\ decoded.point.lon.tag = "num"
         /\ decoded.point.lat.val \in (-90 * DegreeScale)..(90 * DegreeScale)
         /\ decoded.point.lon.val \in (-180 * DegreeScale)..(180 * DegreeScale)

\* Position of a character in the locator alphabet, from 0: a field or
\* sub-square letter in either case, or a square digit.
CellIndex(c) ==
  IF c \in Range(DigitChars) THEN IndexIn(DigitChars, c) - 1
  ELSE IF c \in Range(UpperCase) THEN IndexIn(UpperCase, c) - 1
  ELSE IndexIn(LowerCase, c) - 1

\* The cell a well-formed locator names, in units of 1/48 degree: its
\* south-west corner and its extent (a square is 2 by 1 degree, a
\* sub-square 1/12 by 1/24 degree).
CellOf(loc) ==
  LET west == (20 * CellIndex(loc[1]) + 2 * CellIndex(loc[3]) - 180) * DegreeScale
      south == (10 * CellIndex(loc[2]) + CellIndex(loc[4]) - 90) * DegreeScale
  IN IF Len(loc) = 4
     THEN [west |-> west, south |-> south,
           width |-> 2 * DegreeScale, height |-> DegreeScale]
     ELSE [west |-> west + 4 * CellIndex(loc[5]),
           south |-> south + 2 * CellIndex(loc[6]),
           width |-> 4, height |-> 2]

\* C21: for every well-formed locator of 4 or 6 characters, gridToLatLon
\* (of usePSKReporter.js and of useWSPR.js) returns the centre of the cell
\* the locator names: the corner plus half the cell's extent (1 and 1/2
\* degree for a square, 1/24 and 1/48 degree for a sub-square), a point
\* strictly inside the cell, with a longitude within -180..180 and a
\* latitude within -90..90; DN70 gives latitude 40.5 and longitude -105.
DecodeIsCellCentre ==
  (decoded.by # "none" /\ WellFormed(locator)) =>
    LET cell == CellOf(locator)
        point == decoded.point
    IN /\ ~point.null
       /\ point.lon = Num(cell.west + cell.width \div 2)
       /\ point.lat = Num(cell.south + cell.height \div 2)
       /\ point.lon.val > cell.west /\ point.lon.val < cell.west + cell.width
       /\ point.lat.val > cell.south /\ point.lat.val < cell.south + cell.height
       /\ point.lon.val \in (-180 * DegreeScale)..(180 * DegreeScale)
       /\ point.lat.val \in (-90 * DegreeScale)..(90 * DegreeScale)
       /\ Len(locator) = 4 =>
            /\ point.lon.val = (20 * CellIndex(locator[1]) + 2 * CellIndex(locator[3])
                                 + 1 - 180) * DegreeScale
            /\ 2 * point.lat.val = (2 * (10 * CellIndex(locator[2]) + CellIndex(locator[4])
                                         - 90) + 1) * DegreeScale
       /\ locator = <<"D", "N", "7", "0">> =>
            /\ 2 * point.lat.val = 81 * DegreeScale
            /\ point.lon.val = -105 * DegreeScale

\* DN70 has been decoded, to latitude 40.5 and longitude -105.
DecodeIsCellCentreWitness ==
  /\ decoded.by = "usePSKReporter"
  /\ locator = <<"D", "N", "7", "0">>
  /\ ~decoded.point.null
  /\ 2 * decoded.point.lat.val = 81 * DegreeScale
  /\ decoded.point.lon.val = -105 * DegreeScale

\* The endpoints of the path, as points of the kind pathCoords holds.
PointA == <<Num(pathArgs.lat1), Num(pathArgs.lon1)>>
PointB == <<Num(pathArgs.lat2), Num(pathArgs.lon2)>>
PathComputed == polyline.pathCoords # <<>>

\* C22 (as claimed): for all endpoints a and b and every numPoints >= 1,
\* getGreatCirclePath returns exactly numPoints + 1 points, the first of
\* them a and the last of them b.
PathFromAToB ==
  PathComputed =>
    /\ Len(polyline.pathCoords) = pathArgs.numPoints + 1
    /\ polyline.pathCoords[1] = PointA
    /\ polyline.pathCoords[Len(polyline.pathCoords)] = PointB

\* C23 (as claimed): when the endpoints coincide, getGreatCirclePath
\* returns numPoints + 1 repeats of a, and no coordinate of it is NaN.
DegenerateIsRepeatOfA ==
  (PathComputed /\ PointA = PointB) =>
    /\ Len(polyline.pathCoords) = pathArgs.numPoints + 1
    /\ \A i \in 1..Len(polyline.pathCoords) :
         /\ polyline.pathCoords[i][1].tag # "NaN"
         /\ polyline.pathCoords[i][2].tag # "NaN"
         /\ polyline.pathCoords[i] = PointA

\* The band of an SNR as the contract names it: 0 for an absent SNR, 1 for
\* the weakest band (below -20) up to 5 for the strongest (5 and above).
BandOf(snr) ==
  IF snr.tag = "null" THEN 0
  ELSE IF snr.val < -20 THEN 1
  ELSE IF snr.val >= -20 /\ snr.val < -10 THEN 2
  ELSE IF snr.val >= -10 /\ snr.val < 0 THEN 3
  ELSE IF snr.val >= 0 /\ snr.val < 5 THEN 4
  ELSE 5

DrawnLayers == {l \in mapLayers : l.kind \in {"path", "txMarker", "rxMarker"}}
DrawnSpots == {l.spot : l \in {d \in DrawnLayers : d.kind = "path"}}

\* C25 (as claimed): the map never holds more than MaxDisplayed paths, and
\* when more spots than that were fetched the spots drawn are those with
\* the most recent timestamps: no spot left out is more recent than a spot
\* drawn.
DisplaysMostRecent ==
  /\ Cardinality({l \in DrawnLayers : l.kind = "path"}) <= MaxDisplayed
  /\ (mounted /\ wsprEnabled /\ Len(wsprData) > MaxDisplayed) =>
       /\ Cardinality(DrawnSpots) = MaxDisplayed
       /\ \A drawn \in DrawnSpots : \A left \in Range(wsprData) \ DrawnSpots :
            left.timestamp <= drawn.timestamp

\* C26: while the layer is disabled no path and no marker it has drawn is
\* on the map, whatever enabling, data and opacity changes came before; in
\* particular the step that disables it leaves none.
DisabledLeavesNothing ==
  ~wsprEnabled => DrawnLayers = {}

\* The layer has drawn on the map and is now disabled, with spots at hand.
DisabledLeavesNothingWitness ==
  /\ mounted
  /\ ~wsprEnabled
  /\ everAdded
  /\ wsprData # <<>>
  /\ DrawnLayers = {}

\* The call begins with one of the prefixes, letter case aside.
BeginsWithOneOf(call, prefixes) ==
  \E i \in 1..Len(prefixes) :
    LET c == ToUpperCase(Chars(call))
        prefix == ToUpperCase(Chars(prefixes[i]))
    IN Len(prefix) <= Len(c) /\ \A k \in 1..Len(prefix) : c[k] = prefix[k]

\* C27 (as claimed): with watchlistOnly and a watchlist, a report is listed
\* only if its DX call begins with an entry of the watchlist; with an
\* exclude list, no listed report's DX call begins with an entry of it, and
\* when the exclude list is the only criterion every other report is
\* listed.
WatchlistAndExcludeArePrefixes ==
  LET watchlist == Field(filters, "watchlist", <<>>)
      excludeList == Field(filters, "excludeList", <<>>)
  IN /\ (Field(filters, "watchlistOnly", FALSE) /\ Len(watchlist) > 0) =>
          \A i \in 1..Len(spots) : BeginsWithOneOf(spots[i].call, watchlist)
     /\ Len(excludeList) > 0 =>
          \A i \in 1..Len(spots) : ~BeginsWithOneOf(spots[i].call, excludeList)
     /\ (DOMAIN filters = {"excludeList"} /\ Len(excludeList) > 0) =>
          Len(spots) = Cardinality({i \in 1..Len(allData) :
                                     ~BeginsWithOneOf(allData[i].dxCall, excludeList)})

\* C28 (as claimed): in every reachable state every retained report has an
\* age that does not exceed the retention window, also while time passes
\* between polls and while fetches fail.
AgeBoundedAlways ==
  \A e \in Range(allData) : now - e.timestamp <= spotRetentionMs

\* C28 (amended): the retained set is age-bounded where the code evicts:
\* the state an ingest leaves holds only reports whose age is below the
\* window that ingest evicts with, and the state a change of the retention
\* window leaves holds only reports whose age is below the new window.
AgeBoundedAfterEviction ==
  /\ \A w \in PendingWindows, b \in Batches :
       \A e \in Range(Ingest(allData, b, now, w)) : now - e.timestamp < w
  /\ \A m \in RetentionChoices :
       RetentionMs(m) # spotRetentionMs =>
         \A e \in Range(CleanUp(allData, now, RetentionMs(m))) :
           now - e.timestamp < RetentionMs(m)

\* A retained report has outlived the window while no ingest took place,
\* and the ingest of a fetch in flight would evict it.
AgeBoundedAfterEvictionWitness ==
  \E w \in PendingWindows : \E e \in Range(allData) :
    /\ now - e.timestamp > spotRetentionMs
    /\ w = spotRetentionMs
    /\ e \notin Range(Ingest(allData, <<>>, now, w))

\* The longest retention window the hook is given.
LongestWindow ==
  CHOOSE w \in {RetentionMs(m) : m \in RetentionChoices} :
    \A m \in RetentionChoices : RetentionMs(m) <= w
\* Retained reports old enough to outlive every window before the clock
\* of the model stops.
AgingEntries ==
  {e \in LiveReports : e.timestamp \in 1..(MaxNow - LongestWindow)}

\* C29: under fair polling (time advances, the timer fires, fetches keep
\* succeeding) a retained report that carries a timestamp is eventually
\* absent from the retained set, whatever the retention window and
\* whatever the source delivers meanwhile.
EvictionIsLive ==
  \A e \in AgingEntries : (e \in Range(allData)) ~> (e \notin Range(allData))

\* A report has outlived the window, the clock has stopped, and the ingest
\* of the fetch in flight will drop it.
EvictionIsLiveWitness ==
  \E e \in AgingEntries : \E w \in PendingWindows :
    /\ e \in Range(allData)
    /\ now = MaxNow
    /\ now - e.timestamp >= spotRetentionMs
    /\ e \notin Range(Ingest(allData, <<>>, now, w))

\* C30 (as claimed): once the retention window is w, no ingest leaves a
\* report older than w in the retained set, the ingest of a fetch included
\* that was started under a longer window and is still in flight, in
\* whatever order the fetches resolve.
StaleFetchEvictsWithCurrentWindow ==
  \A w \in PendingWindows, b \in Batches :
    \A e \in Range(Ingest(allData, b, now, w)) :
      now - e.timestamp <= spotRetentionMs

\* C31 (as claimed): once every fetch that was started has completed and the
\* request as configured now (callsign, minutes) has been answered, txReports
\* and rxReports are those of a response to that request: the response to a
\* request that was superseded does not stand in their place.
LatestRequestWins ==
  (mounted /\ PskInflightCount = 0 /\ answered) => reportsOf = callsign

\* C32 (as claimed): two reports whose identity triples (dxCall, freq,
\* spotter) differ are never collapsed into one entry: when a batch is
\* merged into the retained set, every triple of the retained set and of
\* the batch has its own entry in the merged map, also when a call holds
\* the '-' that separates the fields of the key.
DistinctTriplesKeptApart ==
  \A w \in PendingWindows, b \in DashBatches :
    \A x \in Range(allData) \cup Range(b) :
      \E e \in Range(Merged(allData, b, now)) : Identity(e) = Identity(x)

\* A report of a response has a latitude and a longitude: each is given as
\* a number, or the locator of the report decodes to one.
HasPosition(r, grid) ==
  /\ r.lat.tag = "num" \/ (grid # <<>> /\ gridToLatLon(grid).lat.tag = "num")
  /\ r.lon.tag = "num" \/ (grid # <<>> /\ gridToLatLon(grid).lon.tag = "num")

\* The first maxSpots reports of a list that have a position, in the order
\* of the list, each with the fields the hook adds.
FirstPositioned(reports, gridName) ==
  LET positioned ==
        SelectSeq(reports, LAMBDA r : HasPosition(r, r[gridName]))
      kept == SubSeq(positioned, 1,
                     IF Len(positioned) < maxSpots THEN Len(positioned) ELSE maxSpots)
  IN [i \in 1..Len(kept) |-> Located(kept[i], kept[i][gridName])]

\* C33 (as claimed): in every state txReports and rxReports each hold at
\* most maxSpots entries, every one with a latitude and a longitude; and a
\* successful response leaves in them the first maxSpots of its reports that
\* have a position, in the order of the response.
SpotsAreFirstLocated ==
  /\ [](/\ Len(txReports) <= maxSpots
        /\ Len(rxReports) <= maxSpots
        /\ \A r \in Range(txReports) \cup Range(rxReports) :
             r.lat.tag = "num" /\ r.lon.tag = "num")
  /\ [][\A c \in ValidCallsigns, data \in EquatorResponses :
          (mounted /\ PskFetchOk(c, data)) =>
            /\ txReports' = FirstPositioned(data.tx, "receiverGrid")
            /\ rxReports' = FirstPositioned(data.rx, "senderGrid")]_vars

\* C34: the loading flag settles, for useDXClusterData and usePSKReporter:
\* a step in which a fetch completes (with response.ok, with another status
\* or by throwing) leaves loading false, loading never goes from false
\* to true, and when the fetches that are started complete, loading is false
\* from some moment on.
LoadingSettles ==
  /\ [][/\ (mounted /\ InflightCount' < InflightCount) => ~loading'
        /\ (mounted /\ PskInflightCount' < PskInflightCount) => ~pskLoading'
        /\ ~loading => ~loading'
        /\ ~pskLoading => ~pskLoading']_vars
  /\ <>[](IF hook = "useDXClusterData" THEN ~loading ELSE ~pskLoading)

\* C34 witness: the first fetch of useDXClusterData has failed, none has
\* succeeded, none is awaited, and loading is false.
LoadingSettlesWitness ==
  /\ hook = "useDXClusterData"
  /\ mounted
  /\ ~loading
  /\ lastFetchRef = 0
  /\ InflightCount = 0

====
